---------------------------- MODULE Spec2Model ----------------------------
(***************************************************************************)
(* Charon sidecar proxy: the request dispatch pipeline.                    *)
(*                                                                         *)
(* The model covers the HTTP handler of internal/proxy/http.go (rate       *)
(* limit, resolve, reverse proxy with the retrying transport, error        *)
(* handler, breaker feedback, metrics) and the round-robin balancer with   *)
(* passive cooldown, active health loop and per-upstream circuit breaker   *)
(* of the charon main package (src/unnamed/part_007).                      *)
(*                                                                         *)
(* Time is a discrete clock.  In the dispatcher and balancer               *)
(* specifications one tick stands for ten seconds, so the default open     *)
(* duration (20s) is 2 ticks and the passive cooldown (30s) is 3 ticks; in *)
(* the rate limiter specification one tick is a quarter of a second.       *)
(* Every critical section guarded by a mutex is one                        *)
(* action; reads made outside a lock (time.Now() in next, the TCP dial of  *)
(* the health loop) are steps of their own.                                *)
(***************************************************************************)
EXTENDS Integers, Sequences, FiniteSets, TLC

(***************************************************************************)
(* Bounds of the model.                                                    *)
(***************************************************************************)
\* The clock of the balancer specifications stops at MaxTime.
MaxTime == 3
\* The clock of the dispatcher specification stops at MaxClock.
MaxClock == 1
\* Requests accepted in a run of the balancer specifications.
MaxRequests == 5
\* Requests accepted in a run of the dispatcher specification.
MaxDispatch == 2
MaxRetried == 2
\* Route rules in the configuration of the routing specification.
MaxRules == 2
\* Requests of the in-flight specification, the one in flight at its start
\* included.
MaxInFlight == 2
\* The registry specification: the file is rewritten at most MaxVersions
\* times and at most MaxLoads calls of ResolveServiceAddresses are made.
MaxVersions == 2
MaxLoads == 3
\* The selection specification: at most MaxSelections calls of next, the
\* stored index starting anywhere up to MaxCursor.
MaxSelections == 6
MaxCursor == 3
\* The rate limiter specification: the clock stops at MaxLimiterTime, at
\* most MaxLimited requests arrive, and the limiter is configured with up to
\* MaxRPS requests per second and a burst of up to MaxBurst.
MaxLimiterTime == 5
MaxLimited == 3
MaxRPS == 3
MaxBurst == 2

\* Lengths of a clock tick, in milliseconds.
TenSeconds == 10 * 1000
QuarterSecond == 1000 \div 4

(***************************************************************************)
(* Program constants and configuration.                                    *)
(***************************************************************************)
failureThreshold == 2
openDuration == 2
coolDown == 3
maxRetries == 2
backoffBaseMillis == 150
defaultBurst == 1
defaultRPS == 1

StatusBadGateway == 502
StatusTooManyRequests == 429

\* Request slots: the concurrent handler goroutines.
Reqs == {"r1", "r2"}
Addrs == {"A", "B", "C"}
Methods == {"GET", "POST"}
HTTPMethods == {"GET", "HEAD", "PUT", "DELETE", "POST", "PATCH"}
Paths == {"/", "/api"}
\* Statuses an upstream may answer with.
Statuses == {200, 404, 500, 502, 503}

\* Service names the route rules can yield besides "" (no rule matched and
\* no default service): "ghost" is never in the registry file.
Services == {"solo", "duo", "pool"}
Targets == {"solo", "duo", "ghost", ""}
\* Registry files: service name -> ordered endpoint list.
RegistryBoth == [solo |-> <<"A">>, duo |-> <<"A", "B">>]
RegistrySolo == [solo |-> <<"A">>]
RegistryDuo == [duo |-> <<"A", "B">>]
\* cfg.RateLimit.Routes: "specific routes to apply rate limiting".
RateLimitRoutes == {"/api"}
\* cfg.TargetServiceAddr, the static fallback address ("" = not configured).
TargetServiceAddr == ""

\* The configuration of the dispatcher and balancer specifications, which
\* take the route result as an input of the request: no rules, only the
\* static address.
StaticConfig == [Routes |-> <<>>, TargetServiceName |-> "",
                 TargetServiceAddr |-> TargetServiceAddr]

\* Strings the resolver takes apart are sequences of characters.
\* rule.Host ("" = any host) and r.Host:
RuleHosts == {<<>>, <<"a">>, <<"B">>}
RequestHosts == {<<"A">>, <<"b">>, <<"a", ":", "8">>, <<"c">>}
\* rule.PathPrefix ("" = any path) and r.URL.Path:
RulePrefixes == {<<>>, <<"/", "v">>}
RequestPaths == {<<"/">>, <<"/", "v", "1">>, <<"/", "u">>}
\* rule.ServiceName, cfg.TargetServiceName, cfg.TargetServiceAddr:
RuleServices == {"", "solo", "duo"}
DefaultServices == {"", "pool"}
StaticAddrs == {"", "C"}

\* Concurrent callers of registry.ResolveServiceAddresses.
Loaders == {"l1", "l2"}

\* The six PEM files of the certificate directory.
CertFiles == {"ca-key.pem", "ca-cert.pem", "server-key.pem", "server-cert.pem",
              "client-key.pem", "client-cert.pem"}

Unknown == "unknown"
NoHost == ""

\* cbState.state
CLOSED == 0
OPEN == 1
HALF_OPEN == 2

VARIABLES
    registry,    \* the registry file: service -> endpoint list
    limiter,     \* HTTPProxy.RateLimiter: its defaults, or not configured
    tickMillis,  \* the length of one clock tick in milliseconds
    now,         \* the wall clock, in ticks
    rrIdx,       \* rrBalancer.rrIdx: service -> round-robin index
    downUntil,   \* rrBalancer.downUntil: addr -> cooldown expiry (a map)
    healthy,     \* rrBalancer.healthy: addr -> BOOLEAN (a map)
    services,    \* rrBalancer.services: service -> last seen addrs (a map)
    started,     \* rrBalancer.started: the health loop was started
    cb,          \* rrBalancer.cb: addr -> cbState (a map)
    buckets,     \* RateLimiter.buckets: route -> TokenBucket (a map)
    req,         \* per handler goroutine: its position and locals
    reqCount,    \* requests accepted so far
    hl,          \* the health loop goroutine: position, snapshot, dial result
    streak,      \* history: addr -> failures reported since the last success
    picks,       \* history: addr -> returns by next since it went half-open
    calls,       \* history: route -> the calls of RateLimiter.Allow, in order
    nextLog,     \* history: the direct calls of next, in order
    cfg,         \* the routing part of the configuration file
    routed,      \* history: the latest routing decision of the resolver
    modTime,     \* the modification time of the registry file
    cache,       \* registry.cache[path]: <<>> or one cachedRegistry
    watch,       \* registry.watch[path] exists
    events,      \* file-system events the watcher goroutine has not read yet
    loads,       \* per call of ResolveServiceAddresses: position and locals
    breakerTransitions, \* the counter circuit_breaker_transitions_total
    healthLoops,        \* healthLoop goroutines started by setServiceAddrs
    certDir,     \* the certificate directory: file name -> <<>> or its content
    cm           \* the CertManager under construction and its position

vars == <<registry, limiter, tickMillis, now, rrIdx, downUntil, healthy, services,
          started, cb, buckets, req, reqCount, hl, streak, picks, calls, nextLog,
          cfg, routed, modTime, cache, watch, events, loads, breakerTransitions,
          healthLoops, certDir, cm>>

balancerVars == <<rrIdx, downUntil, healthy, services, started, healthLoops, cb>>
configVars == <<registry, limiter, tickMillis, cfg>>
registryVars == <<modTime, cache, watch, events, loads>>
certVars == <<certDir, cm>>

Min(a, b) == IF a < b THEN a ELSE b

\* m with key k set to v (a Go map assignment m[k] = v).
MapSet(m, k, v) == [x \in (DOMAIN m) \cup {k} |-> IF x = k THEN v ELSE m[x]]
\* m without key k (delete(m, k)).
MapDel(m, k) == [x \in (DOMAIN m) \ {k} |-> m[x]]

\* A duration of a number of ticks, in milliseconds.
Millis(ticks) == ticks * tickMillis

(***************************************************************************)
(* Token-bucket rate limiter (package ratelimit).                          *)
(***************************************************************************)
\* Variant: a bucket that starts empty.
NewTokenBucketEmpty(capacity, refillRate, t) ==
    [capacity |-> capacity, tokens |-> 0, refillRate |-> refillRate,
     lastRefill |-> t]

\* NewTokenBucket: the bucket starts full.
NewTokenBucket(capacity, refillRate, t) ==
    [capacity |-> capacity, tokens |-> capacity, refillRate |-> refillRate,
     lastRefill |-> t]

\* Variants: a refill that adds refillRate tokens per tick, and one that
\* does not stop at the capacity.
RefillPerTick(tb, t) ==
    IF t > tb.lastRefill
    THEN [tb EXCEPT !.tokens = Min(tb.tokens + (t - tb.lastRefill) * tb.refillRate,
                                   tb.capacity),
                    !.lastRefill = t]
    ELSE tb
RefillUncapped(tb, t) ==
    IF t > tb.lastRefill
    THEN [tb EXCEPT !.tokens = tb.tokens
                        + (Millis(t - tb.lastRefill) * tb.refillRate) \div 1000,
                    !.lastRefill = t]
    ELSE tb

\* The refill half of TokenBucket.Allow.
Refill(tb, t) ==
    LET elapsed == t - tb.lastRefill
        tokensToAdd == (Millis(elapsed) * tb.refillRate) \div 1000
    IN  IF elapsed > 0
        THEN [tb EXCEPT !.tokens = Min(tb.tokens + tokensToAdd, tb.capacity),
                        !.lastRefill = t]
        ELSE tb

\* TokenBucket.Allow: the bucket after the call and the answer.
TokenBucketAllow(tb, t) ==
    LET r == Refill(tb, t)
    IN  IF r.tokens > 0
        THEN [bucket |-> [r EXCEPT !.tokens = r.tokens - 1], ok |-> TRUE]
        ELSE [bucket |-> r, ok |-> FALSE]

\* NewRateLimiter, and the proxy without a rate limiter.
NewRateLimiter(rps, burst) == [on |-> TRUE, defaultRPS |-> rps, defaultBurst |-> burst]
NoRateLimiter == [on |-> FALSE, defaultRPS |-> 0, defaultBurst |-> 0]

\* RateLimiter.Allow(route): the bucket is created on first use.
RateLimiterAllow(rl, bs, route, t) ==
    LET bucket == IF route \in DOMAIN bs THEN bs[route]
                  ELSE NewTokenBucket(rl.defaultBurst, rl.defaultRPS, t)
        res == TokenBucketAllow(bucket, t)
    IN  [buckets |-> MapSet(bs, route, res.bucket), ok |-> res.ok]

(***************************************************************************)
(* Circuit breaker and balancer (rrBalancer).                              *)
(***************************************************************************)
NewCbState == [state |-> CLOSED, failures |-> 0, openUntil |-> 0,
               trialAllowed |-> FALSE]

\* b.cb[addr], created with zero values when missing.
CbOf(cbm, addr) == IF addr \in DOMAIN cbm THEN cbm[addr] ELSE NewCbState

\* The breaker status of addr (a missing entry is a closed breaker).
StatusOf(cbm, addr) == CbOf(cbm, addr).state

\* Variant: the breaker opens one failure later.
ThresholdExceeded(failures) == failures > failureThreshold

\* s.failures >= b.failureThreshold
ThresholdReached(failures) == failures >= failureThreshold

\* breakerTransitions.WithLabelValues(addr, toState).Inc()
NoTransitions == [a \in Addrs |-> [open |-> 0, half_open |-> 0, closed |-> 0]]
Inc(bt, addr, toState) == [bt EXCEPT ![addr][toState] = @ + 1]

\* The fewest transitions counted for breakers in the states of cbm.
FewestTransitions(cbm) ==
    [a \in Addrs |->
        [open |-> IF StatusOf(cbm, a) # CLOSED THEN 1 ELSE 0,
         half_open |-> IF StatusOf(cbm, a) = HALF_OPEN THEN 1 ELSE 0,
         closed |-> 0]]

\* Variant: every failure at or over the threshold counts an opening.
CbFailureOpensAgain(s) ==
    \/ ThresholdReached(s.failures + 1)
    \/ s.state = HALF_OPEN

\* markFailure counts a transition to "open" in the two branches that open
\* the breaker: a closed breaker at the threshold, a half-open breaker.
CbFailureOpens(s) ==
    \/ s.state = CLOSED /\ ThresholdReached(s.failures + 1)
    \/ s.state = HALF_OPEN

\* markSuccess counts a transition to "closed" in its half-open branch.
CbSuccessCloses(s) == s.state = HALF_OPEN

\* next counts a transition to "half_open" beside each assignment
\* s.state = 2, in either pass: once for every breaker that the call found
\* open and left half-open.
IncHalfOpened(bt, cbOld, cbNew) ==
    [a \in Addrs |->
        IF StatusOf(cbOld, a) = OPEN /\ StatusOf(cbNew, a) = HALF_OPEN
        THEN [bt[a] EXCEPT !.half_open = @ + 1]
        ELSE bt[a]]

\* The breaker half of markFailure.
CbFailure(s, t) ==
    LET f == s.failures + 1
    IN  CASE s.state = CLOSED /\ ThresholdReached(f) ->
                [state |-> OPEN, failures |-> f, openUntil |-> t + openDuration,
                 trialAllowed |-> FALSE]
          [] s.state = HALF_OPEN ->
                [state |-> OPEN, failures |-> f, openUntil |-> t + openDuration,
                 trialAllowed |-> FALSE]
          [] OTHER -> [s EXCEPT !.failures = f]

\* Variant: closing a half-open breaker keeps its failure count.
CbSuccessKeepsCount(s) ==
    IF s.state = HALF_OPEN
    THEN [s EXCEPT !.state = CLOSED, !.trialAllowed = FALSE]
    ELSE [s EXCEPT !.failures = 0]

\* Variant: a success closes the breaker whatever its state.
CbSuccessAnyState(s) ==
    [s EXCEPT !.failures = 0, !.state = CLOSED, !.trialAllowed = FALSE]

\* markSuccess on the breaker entry.
CbSuccess(s) ==
    IF s.state = HALF_OPEN
    THEN [s EXCEPT !.failures = 0, !.state = CLOSED, !.trialAllowed = FALSE]
    ELSE [s EXCEPT !.failures = 0]

\* Variant: the window counts as elapsed at openUntil itself.
WindowElapsedInclusive(t, openUntil) == t >= openUntil

\* now.After(s.openUntil)
WindowElapsed(t, openUntil) == t > openUntil

\* Variant: the trial is allowed without the change of state.
ConsultTrialOnly(s, t) ==
    IF s.state = OPEN /\ WindowElapsed(t, s.openUntil)
    THEN [s EXCEPT !.trialAllowed = TRUE]
    ELSE s

\* The breaker consultation of next: an open breaker whose window elapsed
\* becomes half-open with one trial allowed.
Consult(s, t) ==
    IF s.state = OPEN /\ WindowElapsed(t, s.openUntil)
    THEN [s EXCEPT !.state = HALF_OPEN, !.trialAllowed = TRUE]
    ELSE s

\* Variant: an endpoint with a failure on record is skipped as well.
BreakerSkipsFailed(s) ==
    \/ s.state = OPEN
    \/ s.state = HALF_OPEN /\ ~s.trialAllowed
    \/ s.failures > 0

\* After the consultation: the endpoint is skipped (continue).
BreakerSkips(s) ==
    \/ s.state = OPEN
    \/ s.state = HALF_OPEN /\ ~s.trialAllowed

\* until, ok := b.downUntil[addr]; ok && now.Before(until)
InCooldown(du, addr, t) == addr \in DOMAIN du /\ t < du[addr]

\* Variant: no endpoint counts as down.
IsDownNever(h, addr) == FALSE

\* Variant: the health test inverted.
IsDownInverted(h, addr) == addr \in DOMAIN h /\ h[addr]

\* ok, has := b.healthy[addr]; has && !ok
IsDown(h, addr) == addr \in DOMAIN h /\ ~h[addr]

\* "consume the single trial" after an endpoint was chosen.
ConsumeTrial(cbm, addr) ==
    IF addr \in DOMAIN cbm /\ cbm[addr].state = HALF_OPEN
    THEN [cbm EXCEPT ![addr].trialAllowed = FALSE]
    ELSE cbm

\* One pass of next over i = from .. n-1, with the breaker map as left by the
\* iterations before.  checkHealth is TRUE in the first pass only.  The
\* result holds the endpoint (NoHost when the pass found none), its index,
\* and the breaker map with the transitions made on the way.
RECURSIVE Pass(_, _, _, _, _, _, _, _)
Pass(i, addrs, start, t, du, h, cbm, checkHealth) ==
    LET n == Len(addrs)
        idx == (start + i) % n
        addr == addrs[idx + 1]
        cbm2 == IF addr \in DOMAIN cbm
                THEN [cbm EXCEPT ![addr] = Consult(cbm[addr], t)]
                ELSE cbm
    IN  IF i >= n THEN [addr |-> NoHost, idx |-> 0, cb |-> cbm]
        ELSE IF InCooldown(du, addr, t)
        THEN Pass(i + 1, addrs, start, t, du, h, cbm, checkHealth)
        ELSE IF addr \in DOMAIN cbm2 /\ BreakerSkips(cbm2[addr])
        THEN Pass(i + 1, addrs, start, t, du, h, cbm2, checkHealth)
        ELSE IF checkHealth /\ IsDown(h, addr)
        THEN Pass(i + 1, addrs, start, t, du, h, cbm2, checkHealth)
        ELSE [addr |-> addr, idx |-> idx, cb |-> ConsumeTrial(cbm2, addr)]

\* Variant: the last resort returns the head of the list.
LastResortFirst(addrs, start, cbm) ==
    [addr |-> addrs[1], idx |-> start, cb |-> cbm, pass |-> 3]

\* "All are on cooldown; pick next anyway".
LastResort(addrs, start, cbm) ==
    [addr |-> addrs[(start % Len(addrs)) + 1], idx |-> start, cb |-> cbm,
     pass |-> 3]

\* Variant: the index of the endpoint returned is stored, not the one after.
AdvanceNone(idx, n) == idx % n

\* Variant: the index is stored without the reduction modulo n.
AdvanceRaw(idx, n) == idx + 1

\* b.rrIdx[service] = (idx + 1) % n
Advance(idx, n) == (idx + 1) % n

\* The locked body of next(service, addrs) with now read as t: the endpoint
\* returned, the index it was found at, the pass that returned it and the
\* breaker map afterwards.
NextResult(addrs, start, t, du, h, cbm) ==
    LET p1 == Pass(0, addrs, start, t, du, h, cbm, TRUE)
        p2 == Pass(0, addrs, start, t, du, h, p1.cb, FALSE)
    IN  IF p1.addr # NoHost THEN p1 @@ [pass |-> 1]
        ELSE IF p2.addr # NoHost THEN p2 @@ [pass |-> 2]
        ELSE LastResort(addrs, start, p2.cb)

\* History kept beside the breaker map: returns of addr by next while its
\* breaker is half-open, counted from the moment it went half-open.
PicksAfter(cbOld, cbNew, returned) ==
    [a \in Addrs |->
        IF StatusOf(cbNew, a) # HALF_OPEN THEN 0
        ELSE (IF StatusOf(cbOld, a) = HALF_OPEN THEN picks[a] ELSE 0)
             + (IF returned = a THEN 1 ELSE 0)]

\* Variant: a failure report that reaches the breaker only.
markFailureBreakerOnly(addr) ==
    /\ cb' = MapSet(cb, addr, CbFailure(CbOf(cb, addr), now))
    /\ streak' = [streak EXCEPT ![addr] = @ + 1]
    /\ picks' = PicksAfter(cb, cb', NoHost)
    /\ breakerTransitions' =
          IF CbFailureOpens(CbOf(cb, addr)) THEN Inc(breakerTransitions, addr, "open")
          ELSE breakerTransitions
    /\ UNCHANGED <<rrIdx, downUntil, healthy, services, started, healthLoops>>

\* markFailure(addr), one critical section.
markFailure(addr) ==
    /\ downUntil' = MapSet(downUntil, addr, now + coolDown)
    /\ healthy' = MapSet(healthy, addr, FALSE)
    /\ cb' = MapSet(cb, addr, CbFailure(CbOf(cb, addr), now))
    /\ streak' = [streak EXCEPT ![addr] = @ + 1]
    /\ picks' = PicksAfter(cb, cb', NoHost)
    /\ breakerTransitions' =
          IF CbFailureOpens(CbOf(cb, addr)) THEN Inc(breakerTransitions, addr, "open")
          ELSE breakerTransitions
    /\ UNCHANGED <<rrIdx, services, started, healthLoops>>

\* Variant: a success report that also marks the endpoint healthy.
markSuccessHeals(addr) ==
    /\ cb' = MapSet(cb, addr, CbSuccess(CbOf(cb, addr)))
    /\ healthy' = MapSet(healthy, addr, TRUE)
    /\ streak' = [streak EXCEPT ![addr] = 0]
    /\ picks' = PicksAfter(cb, cb', NoHost)
    /\ breakerTransitions' =
          IF CbSuccessCloses(CbOf(cb, addr)) THEN Inc(breakerTransitions, addr, "closed")
          ELSE breakerTransitions
    /\ UNCHANGED <<rrIdx, downUntil, services, started, healthLoops>>

\* markSuccess(addr), one critical section.
markSuccess(addr) ==
    /\ cb' = MapSet(cb, addr, CbSuccess(CbOf(cb, addr)))
    /\ streak' = [streak EXCEPT ![addr] = 0]
    /\ picks' = PicksAfter(cb, cb', NoHost)
    /\ breakerTransitions' =
          IF CbSuccessCloses(CbOf(cb, addr)) THEN Inc(breakerTransitions, addr, "closed")
          ELSE breakerTransitions
    /\ UNCHANGED <<rrIdx, downUntil, healthy, services, started, healthLoops>>

\* Variant: every registration starts a health loop.
LoopsToStartEach(wasStarted) == 1

\* setServiceAddrs: "if !b.started { b.started = true; go b.healthLoop }".
LoopsToStart(wasStarted) == IF wasStarted THEN 0 ELSE 1

\* No breaker callback is made.
NoReport == UNCHANGED <<balancerVars, streak, picks, breakerTransitions>>

(***************************************************************************)
(* Registry lookup and route result.                                       *)
(***************************************************************************)
\* registry.ResolveServiceAddresses: ioOk is FALSE when the registry file
\* cannot be read.
ResolveServiceAddresses(reg, serviceName, ioOk) ==
    IF ioOk /\ serviceName \in DOMAIN reg /\ Len(reg[serviceName]) > 0
    THEN [ok |-> TRUE, addrs |-> reg[serviceName]]
    ELSE [ok |-> FALSE, addrs |-> <<>>]

\* The registry file as rewritten for the v-th time: every version lists one
\* more endpoint for the service than the version before.
FileContent(v) == [duo |-> [i \in 1..(v + 1) |-> <<"A", "B", "C">>[((i - 1) % 3) + 1]]]

NewLoad == [pc |-> "idle", serviceName |-> "", fi |-> 0, out |-> <<>>,
            began |-> 0, addrs |-> <<>>, err |-> FALSE, count |-> 0]

\* Calls of ResolveServiceAddresses begun so far.
LoadsBegun == Cardinality({<<l, k>> \in Loaders \X (1..MaxLoads) : k <= loads[l].count})

\* The package state before the first call: empty cache, no watcher.
NewRegistryPackage ==
    /\ modTime = 0
    /\ cache = <<>>
    /\ watch = FALSE
    /\ events = 0
    /\ loads = [l \in Loaders |-> NewLoad]

\* The processes that never build a CertManager (TLS not enabled).
NoCertManager ==
    /\ certDir = [f \in CertFiles |-> <<>>]
    /\ cm = [pc |-> "off", caCert |-> <<>>, caKey |-> <<>>,
             serverCert |-> <<>>, clientCert |-> <<>>]

\* Variant: a cache entry is used whatever its modification time.
CacheHitAny(c, fiModTime) == c # <<>>

\* ce, ok := cache[registryPath]; ok && ce.modTime.Equal(fi.ModTime())
CacheHit(c, fiModTime) == c # <<>> /\ c[1].modTime = fiModTime

\* ResolveServiceAddresses after loadRegistry returned m.
Lookup(ld, m) ==
    IF ld.serviceName \in DOMAIN m /\ Len(m[ld.serviceName]) > 0
    THEN [ld EXCEPT !.pc = "done", !.addrs = m[ld.serviceName]]
    ELSE [ld EXCEPT !.pc = "done", !.err = TRUE]

\* The registry file is rewritten; a registered watcher gets an event.
FileChange ==
    /\ modTime < MaxVersions
    /\ modTime' = modTime + 1
    /\ registry' = FileContent(modTime + 1)
    /\ events' = IF watch THEN events + 1 ELSE events
    /\ UNCHANGED <<limiter, tickMillis, cfg, certVars, cache, watch, loads, calls, nextLog, routed, now,
                   balancerVars, buckets, req, reqCount, hl, streak, picks, breakerTransitions>>

\* What the actions of the registry package leave alone.
RegistryFrame ==
    UNCHANGED <<configVars, certVars, modTime, calls, nextLog, routed, now, balancerVars, buckets,
                req, reqCount, hl, streak, picks, breakerTransitions>>

\* A call of ResolveServiceAddresses begins: loadRegistry stats the file.
LoadStat(l) ==
    /\ loads[l].pc \in {"idle", "done"}
    /\ LoadsBegun < MaxLoads
    /\ \E name \in {"duo", "ghost"}, statOk \in BOOLEAN :
          loads' = [loads EXCEPT ![l] =
              IF statOk
              THEN [NewLoad EXCEPT !.pc = "check", !.serviceName = name,
                                   !.fi = modTime, !.began = modTime,
                                   !.count = loads[l].count + 1]
              ELSE [NewLoad EXCEPT !.pc = "done", !.serviceName = name,
                                   !.began = modTime, !.err = TRUE,
                                   !.count = loads[l].count + 1]]
    /\ UNCHANGED <<cache, watch, events>>
    /\ RegistryFrame

\* The cache check under the read lock: a hit returns the cached services.
LoadCheck(l) ==
    /\ loads[l].pc = "check"
    /\ loads' = [loads EXCEPT ![l] =
          IF CacheHit(cache, loads[l].fi) THEN Lookup(loads[l], cache[1].services)
          ELSE [@ EXCEPT !.pc = "read"]]
    /\ UNCHANGED <<cache, watch, events>>
    /\ RegistryFrame

\* v.ReadInConfig and the conversion of the services entry.
LoadRead(l) ==
    /\ loads[l].pc = "read"
    /\ \E readOk \in BOOLEAN :
          loads' = [loads EXCEPT ![l] =
              IF readOk THEN [@ EXCEPT !.pc = "store", !.out = <<registry>>]
              ELSE [@ EXCEPT !.pc = "done", !.err = TRUE]]
    /\ UNCHANGED <<cache, watch, events>>
    /\ RegistryFrame

\* The cache store under the write lock, with the modification time of the
\* stat at the beginning of the call.
LoadStore(l) ==
    /\ loads[l].pc = "store"
    /\ cache' = <<[modTime |-> loads[l].fi, services |-> loads[l].out[1]]>>
    /\ loads' = [loads EXCEPT ![l].pc = "watch"]
    /\ UNCHANGED <<watch, events>>
    /\ RegistryFrame

\* ensureWatcher (best effort: the watcher may fail to start), then the
\* return of loadRegistry and the lookup of the service.
EnsureWatcher(l) ==
    /\ loads[l].pc = "watch"
    /\ \E created \in BOOLEAN : watch' = (watch \/ created)
    /\ loads' = [loads EXCEPT ![l] = Lookup(loads[l], loads[l].out[1])]
    /\ UNCHANGED <<cache, events>>
    /\ RegistryFrame

\* The watcher goroutine reads an event and invalidates the cache.
WatcherEvent ==
    /\ events > 0
    /\ events' = events - 1
    /\ cache' = <<>>
    /\ UNCHANGED <<watch, loads>>
    /\ RegistryFrame

\* strings.ToLower on one character of the alphabet in use.
ToLower(c) == CASE c = "A" -> "a" [] c = "B" -> "b" [] OTHER -> c

\* strings.EqualFold(s, t)
EqualFold(s, t) ==
    Len(s) = Len(t) /\ \A i \in 1..Len(s) : ToLower(s[i]) = ToLower(t[i])

\* strings.HasPrefix(s, prefix)
HasPrefix(s, prefix) ==
    Len(prefix) <= Len(s) /\ SubSeq(s, 1, Len(prefix)) = prefix

\* "strip port": the host up to its first colon.
StripPort(host) ==
    LET colons == {i \in 1..Len(host) : host[i] = ":"}
    IN  IF colons = {} THEN host
        ELSE SubSeq(host, 1, (CHOOSE i \in colons : \A j \in colons : i <= j) - 1)

\* Variant: a rule is passed over only when host and path both differ.
RuleSkippedIfBoth(rule, host, path) ==
    /\ rule.Host # <<>> /\ ~EqualFold(rule.Host, host)
    /\ rule.PathPrefix # <<>> /\ ~HasPrefix(path, rule.PathPrefix)

\* The two continue statements of the loop over cfg.Routes.
RuleSkipped(rule, host, path) ==
    \/ rule.Host # <<>> /\ ~EqualFold(rule.Host, host)
    \/ rule.PathPrefix # <<>> /\ ~HasPrefix(path, rule.PathPrefix)

\* The loop over cfg.Routes from rule i on: serviceName when it ends.
RECURSIVE RouteLoop(_, _, _, _)
RouteLoop(routes, host, path, i) ==
    IF i > Len(routes) THEN ""
    ELSE IF RuleSkipped(routes[i], host, path)
    THEN RouteLoop(routes, host, path, i + 1)
    ELSE routes[i].ServiceName

\* The resolver up to "var addr string": the service name of the request.
ServiceName(c, host, path) ==
    LET byRule == IF Len(c.Routes) > 0
                  THEN RouteLoop(c.Routes, StripPort(host), path, 1)
                  ELSE ""
    IN  IF byRule = "" /\ c.TargetServiceName # "" THEN c.TargetServiceName
        ELSE byRule

\* The resolver's decision for a request: the service it looks up in the
\* registry, or the static address, or the error "no upstream target
\* resolved".
RouteDecision(c, host, path) ==
    LET name == ServiceName(c, host, path)
    IN  [host |-> host, path |-> path, serviceName |-> name,
         addr |-> IF name # "" THEN "" ELSE c.TargetServiceAddr,
         err |-> name = "" /\ c.TargetServiceAddr = ""]

(***************************************************************************)
(* Retrying transport.                                                     *)
(***************************************************************************)
\* retryTransport.isIdempotent with idempotentOnly = true.
isIdempotent(method) == method \in {"GET", "HEAD", "PUT", "DELETE"}

\* Variant: every method is retried.
ShouldRetryAnyMethod(isErr, retries, method) == isErr /\ retries < maxRetries

\* Variant: the retry budget is compared inclusively.
ShouldRetryInclusive(isErr, retries, method) ==
    isErr /\ retries <= maxRetries /\ isIdempotent(method)

\* The loop of RoundTrip goes round again after an attempt.
ShouldRetry(isErr, retries, method) ==
    isErr /\ retries < maxRetries /\ isIdempotent(method)

(***************************************************************************)
(* The certificate manager (package tls).  A private key is named by the   *)
(* run that generated it; a certificate names the key pair it certifies    *)
(* and the key that signed it.                                             *)
(***************************************************************************)
KeyFile(k) == [key |-> k]
CertFile(k, signer) == [key |-> k, issuer |-> signer]

\* What an earlier run of NewCertManager on the directory wrote.
EarlierRun ==
    [f \in CertFiles |->
        CASE f = "ca-key.pem" -> <<KeyFile("ca0")>>
          [] f = "ca-cert.pem" -> <<CertFile("ca0", "ca0")>>
          [] f = "server-key.pem" -> <<KeyFile("server0")>>
          [] f = "server-cert.pem" -> <<CertFile("server0", "ca0")>>
          [] f = "client-key.pem" -> <<KeyFile("client0")>>
          [] f = "client-cert.pem" -> <<CertFile("client0", "ca0")>>]

\* os.Stat(path) returned no error.
Exists(f) == certDir[f] # <<>>

\* tls.LoadX509KeyPair: the pair, or an error when the private key does not
\* belong to the certificate.
LoadX509KeyPair(certPath, keyPath) ==
    IF certDir[certPath][1].key = certDir[keyPath][1].key
    THEN <<[cert |-> certDir[certPath][1], key |-> certDir[keyPath][1]]>>
    ELSE <<>>

\* The frame of the certificate manager's steps.
CertFrame ==
    UNCHANGED <<configVars, registryVars, calls, nextLog, routed, now, balancerVars,
                buckets, req, reqCount, hl, streak, picks, breakerTransitions>>

\* setupCA: load the CA when both of its files exist, else generate it.
setupCA ==
    /\ cm.pc = "setupCA"
    /\ IF Exists("ca-key.pem") /\ Exists("ca-cert.pem")
       THEN \* loadCA
            /\ cm' = [cm EXCEPT !.pc = "setupServerCert",
                                !.caKey = certDir["ca-key.pem"],
                                !.caCert = certDir["ca-cert.pem"]]
            /\ UNCHANGED certDir
       ELSE \* generateCA
            /\ cm' = [cm EXCEPT !.pc = "setupServerCert",
                                !.caKey = <<KeyFile("ca1")>>,
                                !.caCert = <<CertFile("ca1", "ca1")>>]
            /\ certDir' = [certDir EXCEPT !["ca-key.pem"] = <<KeyFile("ca1")>>,
                                          !["ca-cert.pem"] = <<CertFile("ca1", "ca1")>>]
    /\ CertFrame

\* setupServerCert / setupClientCert: load the pair when both files exist
\* and load, else generate a key, sign its certificate with cm.caKey, save
\* both and load them.
SetupLeafCert(keyPath, certPath, newKey) ==
    IF Exists(keyPath) /\ Exists(certPath) /\ LoadX509KeyPair(certPath, keyPath) # <<>>
    THEN [dir |-> certDir, pair |-> LoadX509KeyPair(certPath, keyPath)]
    ELSE LET key == KeyFile(newKey)
             cert == CertFile(newKey, cm.caKey[1].key)
         IN  [dir |-> [certDir EXCEPT ![keyPath] = <<key>>, ![certPath] = <<cert>>],
              pair |-> <<[cert |-> cert, key |-> key]>>]

setupServerCert ==
    /\ cm.pc = "setupServerCert"
    /\ LET res == SetupLeafCert("server-key.pem", "server-cert.pem", "server1")
       IN  /\ certDir' = res.dir
           /\ cm' = [cm EXCEPT !.pc = "setupClientCert", !.serverCert = res.pair]
    /\ CertFrame

setupClientCert ==
    /\ cm.pc = "setupClientCert"
    /\ LET res == SetupLeafCert("client-key.pem", "client-cert.pem", "client1")
       IN  /\ certDir' = res.dir
           /\ cm' = [cm EXCEPT !.pc = "done", !.clientCert = res.pair]
    /\ CertFrame

(***************************************************************************)
(* The handler goroutines.                                                 *)
(***************************************************************************)
NewReq == [pc |-> "idle", method |-> "GET", svc |-> "", path |-> "/",
           addrs |-> <<>>, nowRead |-> 0, bound |-> Unknown, target |-> NoHost,
           retries |-> 0, attempts |-> 0, slept |-> <<>>, cancelled |-> FALSE,
           status |-> 200, byHandler |-> FALSE,
           feedback |-> <<>>, requestsTotal |-> <<>>, latency |-> <<>>,
           rateLimited |-> <<>>]

NewHl == [pc |-> "wait", queue |-> <<>>, addr |-> NoHost, ok |-> FALSE]

\* The state after main built the balancer and the proxy, for a registry
\* file and a rate-limit configuration.
InitProxy(reg, rl, millis) ==
    /\ registry = reg
    /\ limiter = rl
    /\ tickMillis = millis
    /\ cfg = StaticConfig
    /\ routed = <<>>
    /\ NewRegistryPackage
    /\ now = 0
    /\ rrIdx = [s \in Services |-> 0]
    /\ downUntil = <<>>
    /\ healthy = <<>>
    /\ services = <<>>
    /\ started = FALSE
    /\ healthLoops = 0
    /\ cb = <<>>
    /\ buckets = <<>>
    /\ req = [r \in Reqs |-> NewReq]
    /\ reqCount = 0
    /\ hl = NewHl
    /\ streak = [a \in Addrs |-> 0]
    /\ picks = [a \in Addrs |-> 0]
    /\ breakerTransitions = NoTransitions
    /\ calls = [p \in Paths |-> <<>>]
    /\ nextLog = <<>>

\* The same with TLS not enabled: no CertManager is built.
InitWith(reg, rl, millis) == InitProxy(reg, rl, millis) /\ NoCertManager

\* A request arrives: the mux hands it to a handler goroutine.
StartRequest(r, methods, paths, targets, budget) ==
    /\ req[r].pc \in {"idle", "done"}
    /\ reqCount < budget
    /\ \E m \in methods, svc \in targets, p \in paths :
          req' = [req EXCEPT ![r] = [NewReq EXCEPT !.pc = "ratelimit",
                                       !.method = m, !.svc = svc, !.path = p]]
    /\ reqCount' = reqCount + 1
    /\ UNCHANGED <<configVars, certVars, registryVars, calls, nextLog, routed, now, balancerVars, buckets, hl, streak, picks, breakerTransitions>>

\* Variant: the handler counts and replies 429 but does not return.
RejectedGoesOn(q, route) ==
    [q EXCEPT !.pc = "resolve",
              !.rateLimited = Append(@, route),
              !.status = StatusTooManyRequests]

\* The deny branch of the handler: count, reply 429, return.
Rejected(q, route) ==
    [q EXCEPT !.pc = "done",
              !.rateLimited = Append(@, route),
              !.status = StatusTooManyRequests]

\* "Rate limiting check": on deny count, reply 429 and return.
RateLimit(r) ==
    /\ req[r].pc = "ratelimit"
    /\ LET route == req[r].path
           res == IF limiter.on THEN RateLimiterAllow(limiter, buckets, route, now)
                  ELSE [buckets |-> buckets, ok |-> TRUE]
       IN  /\ buckets' = res.buckets
           /\ calls' = IF limiter.on
                       THEN [calls EXCEPT ![route] = Append(@, [at |-> now, ok |-> res.ok,
                                      left |-> res.buckets[route].tokens])]
                       ELSE calls
           /\ req' = [req EXCEPT ![r] =
                 IF res.ok THEN [@ EXCEPT !.pc = "resolve"]
                 ELSE Rejected(@, route)]
    /\ UNCHANGED <<configVars, certVars, registryVars, nextLog, routed, now, balancerVars, reqCount, hl, streak, picks, breakerTransitions>>

\* RateLimiter.Allow step by step, for concurrent callers.  The lookup
\* under the read lock: the caller goes on to create the bucket or to draw.
AllowLookup(r) ==
    /\ req[r].pc = "ratelimit"
    /\ limiter.on
    /\ req' = [req EXCEPT ![r].pc =
                  IF req[r].path \in DOMAIN buckets THEN "draw" ELSE "create"]
    /\ UNCHANGED <<configVars, certVars, registryVars, calls, nextLog, routed, now, balancerVars, buckets, reqCount, hl, streak, picks, breakerTransitions>>

\* Variant: no second look under the write lock.
StillAbsentUnchecked(bs, route) == TRUE

\* "Double-check after acquiring write lock".
StillAbsent(bs, route) == route \notin DOMAIN bs

\* The write-locked section: create the bucket unless it exists by now.
AllowCreate(r) ==
    /\ req[r].pc = "create"
    /\ buckets' = IF StillAbsent(buckets, req[r].path)
                  THEN MapSet(buckets, req[r].path,
                              NewTokenBucket(limiter.defaultBurst, limiter.defaultRPS, now))
                  ELSE buckets
    /\ req' = [req EXCEPT ![r].pc = "draw"]
    /\ UNCHANGED <<configVars, certVars, registryVars, calls, nextLog, routed, now, balancerVars, reqCount, hl, streak, picks, breakerTransitions>>

\* bucket.Allow() on the bucket of the route, and the handler's branch on
\* its answer.
AllowDraw(r) ==
    /\ req[r].pc = "draw"
    /\ LET route == req[r].path
           res == TokenBucketAllow(buckets[route], now)
       IN  /\ buckets' = [buckets EXCEPT ![route] = res.bucket]
           /\ calls' = [calls EXCEPT ![route] =
                           Append(@, [at |-> now, ok |-> res.ok,
                                      left |-> res.bucket.tokens])]
           /\ req' = [req EXCEPT ![r] =
                 IF res.ok THEN [@ EXCEPT !.pc = "resolve"]
                 ELSE Rejected(@, route)]
    /\ UNCHANGED <<configVars, certVars, registryVars, nextLog, routed, now, balancerVars, reqCount, hl, streak, picks, breakerTransitions>>

\* The handler (pc "resolve"/"select") binds the endpoint to the request:
\* chosen, resolvedUp and the context value the Director reads.  The
\* Director's own resolve (pc "director"/"dselect") only sets the target.
Bind(q, addr) ==
    IF q.pc \in {"resolve", "select"}
    THEN [q EXCEPT !.pc = "transport", !.bound = addr, !.target = addr]
    ELSE [q EXCEPT !.pc = "transport", !.target = addr]

\* The resolver failed: the handler goes on without a chosen upstream and
\* the Director resolves once more; when that fails too (TargetURL is nil)
\* the request is left as it is.
Unresolved(q) ==
    IF q.pc = "resolve" THEN [q EXCEPT !.pc = "director"]
    ELSE [q EXCEPT !.pc = "transport", !.target = NoHost]

\* The resolver up to the call of next: route result, registry lookup,
\* setServiceAddrs, the single-address shortcut, and time.Now() of next.
Resolve(r) ==
    /\ req[r].pc \in {"resolve", "director"}
    /\ \E ioOk \in BOOLEAN :
          LET q == req[r]
              res == ResolveServiceAddresses(registry, q.svc, ioOk)
          IN  IF q.svc = ""
              THEN /\ req' = [req EXCEPT ![r] =
                        IF cfg.TargetServiceAddr = "" THEN Unresolved(q)
                        ELSE Bind(q, cfg.TargetServiceAddr)]
                   /\ UNCHANGED <<services, started, healthLoops>>
              ELSE IF ~res.ok
              THEN /\ req' = [req EXCEPT ![r] = Unresolved(q)]
                   /\ UNCHANGED <<services, started, healthLoops>>
              ELSE /\ services' = MapSet(services, q.svc, res.addrs)
                   /\ started' = TRUE
                   /\ healthLoops' = healthLoops + LoopsToStart(started)
                   /\ req' = [req EXCEPT ![r] =
                        IF Len(res.addrs) = 1 THEN Bind(q, res.addrs[1])
                        ELSE [q EXCEPT !.nowRead = now, !.addrs = res.addrs,
                                       !.pc = IF q.pc = "resolve" THEN "select"
                                              ELSE "dselect"]]
    /\ UNCHANGED <<configVars, certVars, registryVars, calls, nextLog, routed, now, rrIdx, downUntil, healthy, cb, buckets, reqCount, hl,
                   streak, picks, breakerTransitions>>

\* The locked body of next(service, addrs).
Select(r) ==
    /\ req[r].pc \in {"select", "dselect"}
    /\ LET q == req[r]
           addrs == q.addrs
           res == NextResult(addrs, rrIdx[q.svc], q.nowRead, downUntil,
                             healthy, cb)
       IN  /\ rrIdx' = [rrIdx EXCEPT ![q.svc] = Advance(res.idx, Len(addrs))]
           /\ cb' = res.cb
           /\ picks' = PicksAfter(cb, res.cb, res.addr)
           /\ breakerTransitions' = IncHalfOpened(breakerTransitions, cb, res.cb)
           /\ req' = [req EXCEPT ![r] = [Bind(q, res.addr) EXCEPT !.nowRead = 0, !.addrs = <<>>]]
    /\ UNCHANGED <<configVars, certVars, registryVars, calls, nextLog, routed, now, downUntil, healthy, services, started, healthLoops, buckets,
                   reqCount, hl, streak>>

\* What one attempt of the base transport can end in: a request without a
\* target host cannot be sent at all.
TransportError == [err |-> TRUE, status |-> 0]
Outcomes(target, statuses) ==
    IF target = NoHost THEN {TransportError}
    ELSE {TransportError} \cup {[err |-> FALSE, status |-> c] : c \in statuses}

\* The request's context is cancelled while the handler is serving it (the
\* client went away): the outgoing request carries a context derived from
\* the incoming one.  A cancellation that comes after the transport returned
\* changes nothing the handler reads.
Cancel(r) ==
    /\ req[r].pc \in {"ratelimit", "resolve", "select", "transport"}
    /\ ~req[r].cancelled
    /\ req' = [req EXCEPT ![r].cancelled = TRUE]
    /\ UNCHANGED <<configVars, certVars, registryVars, calls, nextLog, routed, now, balancerVars, buckets, reqCount, hl, streak, picks, breakerTransitions>>

\* The base transport fails every attempt made with a cancelled context.
AttemptOutcomes(q, statuses) ==
    IF q.cancelled THEN {TransportError} ELSE Outcomes(q.target, statuses)

\* Variant: the backoff counted from the retry before.
backoffFromZero(i) == (2 ^ (i - 1)) * backoffBaseMillis

\* backoffFunc: time.Duration(1<<i) * 150 * time.Millisecond, in milliseconds.
backoffFunc(i) == (2 ^ i) * backoffBaseMillis

\* One attempt of retryTransport.RoundTrip and the loop's decision; counting
\* a retry and sleeping its backoff are part of the decision to go round.
Transport(r, statuses) ==
    /\ req[r].pc = "transport"
    /\ \E out \in AttemptOutcomes(req[r], statuses) :
          LET q == [req[r] EXCEPT !.attempts = @ + 1]
          IN  req' = [req EXCEPT ![r] =
                 IF ~out.err
                 THEN [q EXCEPT !.status = out.status, !.pc = "feedback"]
                 ELSE IF ShouldRetry(out.err, q.retries, q.method)
                 THEN [q EXCEPT !.retries = @ + 1,
                                !.slept = Append(@, backoffFunc(q.retries + 1))]
                 ELSE [q EXCEPT !.pc = "errorhandler"]]
    /\ UNCHANGED <<configVars, certVars, registryVars, calls, nextLog, routed, now, balancerVars, buckets, reqCount, hl, streak, picks, breakerTransitions>>

\* A breaker callback is made for this request.
Report(q, kind, by) == Append(q.feedback, [kind |-> kind, addr |-> q.bound, by |-> by])

\* ReverseProxy.ErrorHandler: OnUpstreamError for a bound upstream, then 502.
ErrorHandlerReports(q) == q.bound # NoHost /\ q.bound # Unknown

ErrorHandler(r) ==
    /\ req[r].pc = "errorhandler"
    /\ LET q == req[r]
       IN  /\ IF ErrorHandlerReports(q)
              THEN /\ markFailure(q.bound)
                   /\ req' = [req EXCEPT ![r] =
                         [q EXCEPT !.pc = "feedback", !.status = StatusBadGateway,
                                   !.byHandler = TRUE,
                                   !.feedback = Report(q, "failure", "ErrorHandler")]]
              ELSE /\ NoReport
                   /\ req' = [req EXCEPT ![r] =
                         [q EXCEPT !.pc = "feedback", !.status = StatusBadGateway,
                                   !.byHandler = TRUE]]
    /\ UNCHANGED <<configVars, certVars, registryVars, calls, nextLog, routed, now, buckets, reqCount, hl>>

\* Variants: a status branch that counts every 5xx as a failure, and one
\* that counts only statuses below 400 as a success.
StatusIsAny5xx(status) == status >= 500
StatusIsBelow400(status) == status < 400

\* The status branch of the handler after ServeHTTP returned.
StatusIsFailure(status) == status >= 500 /\ status # StatusBadGateway

StatusIsSuccess(status) == status < 500

\* requests_total and request_latency_seconds, one call each.
Metrics(q) ==
    [q EXCEPT !.requestsTotal = Append(@, <<q.method, q.status, q.bound>>),
              !.latency = Append(@, <<q.method, q.bound>>)]

\* After ServeHTTP: breaker feedback by status, then the metrics.
Feedback(r) ==
    /\ req[r].pc = "feedback"
    /\ LET q == req[r]
       IN  IF q.bound # Unknown /\ StatusIsFailure(q.status)
           THEN /\ markFailure(q.bound)
                /\ req' = [req EXCEPT ![r] =
                      Metrics([q EXCEPT !.pc = "done",
                                 !.feedback = Report(q, "failure", "status")])]
           ELSE IF q.bound # Unknown /\ StatusIsSuccess(q.status)
           THEN /\ markSuccess(q.bound)
                /\ req' = [req EXCEPT ![r] =
                      Metrics([q EXCEPT !.pc = "done",
                                 !.feedback = Report(q, "success", "status")])]
           ELSE /\ NoReport
                /\ req' = [req EXCEPT ![r] = Metrics([q EXCEPT !.pc = "done"])]
    /\ UNCHANGED <<configVars, certVars, registryVars, calls, nextLog, routed, now, buckets, reqCount, hl>>

(***************************************************************************)
(* The health loop goroutine.                                              *)
(***************************************************************************)
\* The orders in which a map with these keys can be ranged over.
Orders(S) ==
    {o \in [1..Cardinality(S) -> S] : \A i, j \in DOMAIN o : o[i] = o[j] => i = j}

RECURSIVE Concat(_, _)
Concat(m, order) ==
    IF order = <<>> THEN <<>>
    ELSE m[Head(order)] \o Concat(m, Tail(order))

\* The ticker fired: snapshot of the services map.
HealthSnapshot ==
    /\ started
    /\ hl.pc = "wait"
    /\ \E o \in Orders(DOMAIN services) :
          hl' = [hl EXCEPT !.pc = "dial", !.queue = Concat(services, o)]
    /\ UNCHANGED <<configVars, certVars, registryVars, calls, nextLog, routed, now, balancerVars, buckets, req, reqCount, streak, picks, breakerTransitions>>

\* net.DialTimeout to the next address of the snapshot, outside the lock.
HealthDial ==
    /\ hl.pc = "dial"
    /\ hl.queue # <<>>
    /\ \E ok \in BOOLEAN :
          hl' = [hl EXCEPT !.pc = "apply", !.addr = Head(hl.queue), !.ok = ok,
                           !.queue = Tail(hl.queue)]
    /\ UNCHANGED <<configVars, certVars, registryVars, calls, nextLog, routed, now, balancerVars, buckets, req, reqCount, streak, picks, breakerTransitions>>

\* The dial's result is stored under the lock; a healthy endpoint loses its
\* passive cooldown.
HealthApply ==
    /\ hl.pc = "apply"
    /\ healthy' = MapSet(healthy, hl.addr, hl.ok)
    /\ downUntil' = IF hl.ok THEN MapDel(downUntil, hl.addr) ELSE downUntil
    /\ hl' = [NewHl EXCEPT !.queue = hl.queue,
                           !.pc = IF hl.queue = <<>> THEN "wait" ELSE "dial"]
    /\ UNCHANGED <<configVars, certVars, registryVars, calls, nextLog, routed, now, rrIdx, services, started, healthLoops, cb, buckets, req, reqCount,
                   streak, picks, breakerTransitions>>

\* Time passes, up to the limit of the specification.
Tick(limit) ==
    /\ now < limit
    /\ now' = now + 1
    /\ UNCHANGED <<configVars, certVars, registryVars, calls, nextLog, routed, balancerVars, buckets, req, reqCount, hl, streak, picks, breakerTransitions>>

\* The steps of the handler goroutines in rs, for at most budget requests
\* with the given methods and route results, the upstreams answering with
\* the given statuses.
Handlers(rs, methods, paths, targets, statuses, budget) ==
    \/ \E r \in rs : StartRequest(r, methods, paths, targets, budget)
    \/ \E r \in rs : RateLimit(r)
    \/ \E r \in rs : Resolve(r)
    \/ \E r \in rs : Transport(r, statuses)
    \/ \E r \in rs : ErrorHandler(r)
    \/ \E r \in rs : Feedback(r)

Selects(rs) == \E r \in rs : Select(r)

HealthLoop ==
    \/ HealthSnapshot
    \/ HealthDial
    \/ HealthApply

(***************************************************************************)
(* Spec: the dispatcher.  Two concurrent handlers, every method, route     *)
(* result and upstream answer, the rate limiter configured, a registry     *)
(* with a single-endpoint and a two-endpoint service.                      *)
(***************************************************************************)
Init == InitWith(RegistryBoth, NewRateLimiter(defaultRPS, defaultBurst), TenSeconds)

Next ==
    \/ Handlers(Reqs, Methods, {"/"}, Targets, Statuses, MaxDispatch)
    \/ Selects(Reqs)
    \/ Tick(MaxClock)

Spec == Init /\ [][Next]_vars

(***************************************************************************)
(* SpecBalancer: the balancer, its breakers and the health loop under a    *)
(* sequence of requests to the two-endpoint service, no rate limiter.      *)
(***************************************************************************)
InitBalancer == InitWith(RegistryDuo, NoRateLimiter, TenSeconds)

NextBalancer ==
    \/ Handlers({"r1"}, {"POST"}, {"/"}, {"duo"}, {200, 500}, MaxRequests)
    \/ Selects({"r1"})
    \/ HealthLoop
    \/ Tick(MaxTime)

SpecBalancer == InitBalancer /\ [][NextBalancer]_vars

(***************************************************************************)
(* SpecSolo: a registry whose only service has a single endpoint; the      *)
(* resolver never calls next.                                              *)
(***************************************************************************)
InitSolo == InitWith(RegistrySolo, NoRateLimiter, TenSeconds)

NextSolo ==
    \/ Handlers({"r1"}, {"POST"}, {"/"}, {"solo"}, {200, 500}, MaxRequests)
    \/ HealthLoop
    \/ Tick(MaxTime)

SpecSolo == InitSolo /\ [][NextSolo]_vars

(***************************************************************************)
(* SpecRetry: the retrying transport under a sequence of requests with     *)
(* every method to the single-endpoint service, the client free to go away *)
(* while a request is served.                                              *)
(***************************************************************************)
InitRetry == InitWith(RegistrySolo, NoRateLimiter, TenSeconds)

NextRetry ==
    \/ Handlers({"r1"}, HTTPMethods, {"/"}, {"solo"}, {200, 500}, MaxRetried)
    \/ Cancel("r1")
    \/ Tick(MaxClock)

SpecRetry == InitRetry /\ [][NextRetry]_vars

(***************************************************************************)
(* The rate limiter: a sequence of requests that match no route (so that   *)
(* the balancer stays out of it) against a limiter with any configured     *)
(* rate and burst, the clock in quarter seconds.                           *)
(***************************************************************************)
InitLimiter ==
    \E rps \in 1..MaxRPS, burst \in 0..MaxBurst :
        InitWith(RegistrySolo, NewRateLimiter(rps, burst), QuarterSecond)

NextLimiter ==
    \/ Handlers({"r1"}, {"POST"}, Paths, {""}, {200}, MaxLimited)
    \/ Tick(MaxLimiterTime)

SpecLimiter == InitLimiter /\ [][NextLimiter]_vars

(***************************************************************************)
(* The selection function by itself: next(service, addrs) called again and *)
(* again on a balancer in any state that earlier requests, failures and    *)
(* health probes can have left behind, for an endpoint list of one to      *)
(* three addresses and a stored index that may stem from a longer list.    *)
(***************************************************************************)
\* The endpoint lists the registry may hold for the service.
PoolLists == {<<"A">>, <<"A", "B">>, <<"A", "B", "C">>}

\* What the balancer can hold about one endpoint at time t: nothing, a probe
\* result only, or the traces of failures reported at time f (one failure,
\* or failureThreshold of them), with or without a later successful probe,
\* a later success, or a trial handed out after the open window.
EndpointStates(t) ==
    LET none == <<>>
        closed(n) == [state |-> CLOSED, failures |-> n, openUntil |-> 0,
                      trialAllowed |-> FALSE]
        open(f) == [state |-> OPEN, failures |-> failureThreshold,
                    openUntil |-> f + openDuration, trialAllowed |-> FALSE]
        trial(f) == [state |-> HALF_OPEN, failures |-> failureThreshold,
                     openUntil |-> f + openDuration, trialAllowed |-> FALSE]
    IN  {[cb |-> none, healthy |-> none, downUntil |-> none],
         [cb |-> none, healthy |-> <<TRUE>>, downUntil |-> none],
         [cb |-> none, healthy |-> <<FALSE>>, downUntil |-> none],
         [cb |-> <<closed(0)>>, healthy |-> <<TRUE>>, downUntil |-> none],
         [cb |-> <<trial(t - 3)>>, healthy |-> <<TRUE>>, downUntil |-> none]}
        \cup UNION {
            {[cb |-> <<closed(1)>>, healthy |-> <<FALSE>>, downUntil |-> <<f + coolDown>>],
             [cb |-> <<closed(1)>>, healthy |-> <<TRUE>>, downUntil |-> none],
             [cb |-> <<open(f)>>, healthy |-> <<FALSE>>, downUntil |-> <<f + coolDown>>],
             [cb |-> <<open(f)>>, healthy |-> <<TRUE>>, downUntil |-> none]}
            : f \in {t - 3, t - 2}}

\* The map that holds field of e[a] for the endpoints that have one.
MapOf(e, field) ==
    [a \in {x \in Addrs : e[x][field] # <<>>} |-> e[a][field][1]]

InitNext ==
    /\ \E list \in PoolLists : registry = [pool |-> list] /\ services = [pool |-> list]
    /\ limiter = NoRateLimiter
    /\ tickMillis = TenSeconds
    /\ cfg = StaticConfig
    /\ routed = <<>>
    /\ NewRegistryPackage
    /\ NoCertManager
    /\ now = MaxTime
    /\ \E c \in 0..MaxCursor : rrIdx = [s \in Services |-> IF s = "pool" THEN c ELSE 0]
    /\ \E e \in [Addrs -> EndpointStates(MaxTime)] :
          /\ cb = MapOf(e, "cb")
          /\ healthy = MapOf(e, "healthy")
          /\ downUntil = MapOf(e, "downUntil")
          /\ streak = [a \in Addrs |-> IF a \in DOMAIN cb THEN cb[a].failures ELSE 0]
          /\ picks = [a \in Addrs |-> IF StatusOf(cb, a) = HALF_OPEN THEN 1 ELSE 0]
          /\ breakerTransitions = FewestTransitions(cb)
    /\ started = TRUE
    /\ healthLoops = 1
    /\ buckets = <<>>
    /\ req = [r \in Reqs |-> NewReq]
    /\ reqCount = 0
    /\ hl = NewHl
    /\ calls = [p \in Paths |-> <<>>]
    /\ nextLog = <<>>

\* One call of next(service, addrs) with the registry's list.
NextCall ==
    /\ Len(nextLog) < MaxSelections
    /\ LET addrs == registry["pool"]
           start == rrIdx["pool"]
           res == NextResult(addrs, start, now, downUntil, healthy, cb)
       IN  /\ rrIdx' = [rrIdx EXCEPT !["pool"] = Advance(res.idx, Len(addrs))]
           /\ cb' = res.cb
           /\ picks' = PicksAfter(cb, res.cb, res.addr)
           /\ breakerTransitions' = IncHalfOpened(breakerTransitions, cb, res.cb)
           /\ nextLog' = Append(nextLog, [start |-> start, addr |-> res.addr])
    /\ UNCHANGED <<configVars, certVars, registryVars, routed, calls, now, downUntil, healthy, services, started, healthLoops, buckets,
                   req, reqCount, hl, streak>>

SpecNext == InitNext /\ [][NextCall]_vars

(***************************************************************************)
(* SpecRegistry: concurrent calls of ResolveServiceAddresses while the     *)
(* registry file is rewritten and the watcher invalidates the cache.       *)
(***************************************************************************)
InitRegistry ==
    /\ InitWith(FileContent(0), NoRateLimiter, TenSeconds)

RegistryCalls ==
    \/ \E l \in Loaders : LoadStat(l)
    \/ \E l \in Loaders : LoadCheck(l)
    \/ \E l \in Loaders : LoadRead(l)
    \/ \E l \in Loaders : LoadStore(l)
    \/ \E l \in Loaders : EnsureWatcher(l)

NextRegistry ==
    \/ RegistryCalls
    \/ WatcherEvent
    \/ FileChange

SpecRegistry == InitRegistry /\ [][NextRegistry]_vars

(***************************************************************************)
(* SpecRoute: the routing decision of the resolver for any request host    *)
(* and path, under any configuration of up to MaxRules route rules, with   *)
(* or without a default service and a static address.                      *)
(***************************************************************************)
RouteRules == [Host : RuleHosts, PathPrefix : RulePrefixes, ServiceName : RuleServices]

InitRoute ==
    /\ \E k \in 0..MaxRules, d \in DefaultServices, a \in StaticAddrs :
          \E rules \in [1..k -> RouteRules] :
              cfg = [Routes |-> rules, TargetServiceName |-> d, TargetServiceAddr |-> a]
    /\ registry = RegistryBoth
    /\ limiter = NoRateLimiter
    /\ tickMillis = TenSeconds
    /\ routed = <<>>
    /\ NewRegistryPackage
    /\ NoCertManager
    /\ now = 0
    /\ rrIdx = [s \in Services |-> 0]
    /\ downUntil = <<>>
    /\ healthy = <<>>
    /\ services = <<>>
    /\ started = FALSE
    /\ healthLoops = 0
    /\ cb = <<>>
    /\ buckets = <<>>
    /\ req = [r \in Reqs |-> NewReq]
    /\ reqCount = 0
    /\ hl = NewHl
    /\ streak = [a \in Addrs |-> 0]
    /\ picks = [a \in Addrs |-> 0]
    /\ breakerTransitions = NoTransitions
    /\ calls = [p \in Paths |-> <<>>]
    /\ nextLog = <<>>

\* The resolver decides the route of one request.
Route ==
    /\ \E host \in RequestHosts, path \in RequestPaths :
          routed' = <<RouteDecision(cfg, host, path)>>
    /\ UNCHANGED <<configVars, certVars, registryVars, calls, nextLog, now, balancerVars, buckets, req,
                   reqCount, hl, streak, picks, breakerTransitions>>

SpecRoute == InitRoute /\ [][Route]_vars

(***************************************************************************)
(* SpecPair: two handler goroutines that have both entered next for the    *)
(* same service, each with the time it read before taking the lock, on a   *)
(* balancer in any state that earlier requests can have left behind.       *)
(***************************************************************************)
InitPair ==
    /\ \E list \in PoolLists \ {<<"A">>} :
          /\ registry = [pool |-> list] /\ services = [pool |-> list]
          /\ \E t1, t2 \in {MaxTime - 1, MaxTime} :
                req = [r \in Reqs |->
                          [NewReq EXCEPT !.pc = "select", !.svc = "pool",
                                         !.method = "POST", !.addrs = list,
                                         !.nowRead = IF r = "r1" THEN t1 ELSE t2]]
    /\ limiter = NoRateLimiter
    /\ tickMillis = TenSeconds
    /\ cfg = StaticConfig
    /\ routed = <<>>
    /\ NewRegistryPackage
    /\ NoCertManager
    /\ now = MaxTime
    /\ \E c \in 0..MaxCursor : rrIdx = [s \in Services |-> IF s = "pool" THEN c ELSE 0]
    /\ \E e \in [Addrs -> EndpointStates(MaxTime)] :
          /\ cb = MapOf(e, "cb")
          /\ healthy = MapOf(e, "healthy")
          /\ downUntil = MapOf(e, "downUntil")
          /\ streak = [a \in Addrs |-> IF a \in DOMAIN cb THEN cb[a].failures ELSE 0]
          /\ picks = [a \in Addrs |-> IF StatusOf(cb, a) = HALF_OPEN THEN 1 ELSE 0]
          /\ breakerTransitions = FewestTransitions(cb)
    /\ started = TRUE
    /\ healthLoops = 1
    /\ buckets = <<>>
    /\ reqCount = Cardinality(Reqs)
    /\ hl = NewHl
    /\ calls = [p \in Paths |-> <<>>]
    /\ nextLog = <<>>

SpecPair == InitPair /\ [][Selects(Reqs)]_vars

(***************************************************************************)
(* SpecInFlight: a request (a PATCH) is in flight to an endpoint of the    *)
(* two-endpoint service, selected at some earlier time, while the balancer *)
(* is in any state that the requests since then can have left behind, the  *)
(* endpoint's breaker not HALF_OPEN; further requests (POST) arrive.       *)
(***************************************************************************)
InitInFlight ==
    /\ registry = [pool |-> <<"A", "B">>]
    /\ services = [pool |-> <<"A", "B">>]
    /\ limiter = NoRateLimiter
    /\ tickMillis = TenSeconds
    /\ cfg = StaticConfig
    /\ routed = <<>>
    /\ NewRegistryPackage
    /\ NoCertManager
    /\ now = MaxTime
    /\ \E c \in 0..MaxCursor : rrIdx = [s \in Services |-> IF s = "pool" THEN c ELSE 0]
    /\ \E e \in [Addrs -> EndpointStates(MaxTime)] :
          /\ e["C"] = [cb |-> <<>>, healthy |-> <<>>, downUntil |-> <<>>]
          /\ cb = MapOf(e, "cb")
          /\ healthy = MapOf(e, "healthy")
          /\ downUntil = MapOf(e, "downUntil")
          /\ streak = [a \in Addrs |-> IF a \in DOMAIN cb THEN cb[a].failures ELSE 0]
          /\ picks = [a \in Addrs |-> IF StatusOf(cb, a) = HALF_OPEN THEN 1 ELSE 0]
          /\ breakerTransitions = FewestTransitions(cb)
    /\ \E a \in {"A", "B"} :
          /\ StatusOf(cb, a) # HALF_OPEN
          /\ req = [r \in Reqs |->
                       IF r = "r1" THEN NewReq
                       ELSE [NewReq EXCEPT !.pc = "transport", !.method = "PATCH",
                                           !.svc = "pool", !.bound = a, !.target = a]]
    /\ started = TRUE
    /\ healthLoops = 1
    /\ buckets = <<>>
    /\ reqCount = 1
    /\ hl = NewHl
    /\ calls = [p \in Paths |-> <<>>]
    /\ nextLog = <<>>

NextInFlight ==
    \/ Handlers(Reqs, {"POST"}, {"/"}, {"pool"}, {200, 500}, MaxInFlight)
    \/ Selects(Reqs)

SpecInFlight == InitInFlight /\ [][NextInFlight]_vars

(***************************************************************************)
(* SpecTrial: the balancer under a sequence of requests to the two-endpoint *)
(* service whose upstreams answer 500 or 502, or not at all.               *)
(***************************************************************************)
NextTrial ==
    \/ Handlers({"r1"}, {"POST"}, {"/"}, {"duo"}, {500, StatusBadGateway}, MaxRequests)
    \/ Selects({"r1"})
    \/ Tick(MaxTime)

SpecTrial == InitBalancer /\ [][NextTrial]_vars

(***************************************************************************)
(* SpecProbe: the health loop has dialled B, the last address of its       *)
(* snapshot, and not yet taken the lock to store the result, while the     *)
(* first request is in flight to A and one more request follows.  No       *)
(* further probe begins.                                                   *)
(***************************************************************************)
InitProbe ==
    /\ registry = RegistryDuo
    /\ services = [duo |-> <<"A", "B">>]
    /\ limiter = NoRateLimiter
    /\ tickMillis = TenSeconds
    /\ cfg = StaticConfig
    /\ routed = <<>>
    /\ NewRegistryPackage
    /\ NoCertManager
    /\ now = 0
    /\ rrIdx = [s \in Services |-> IF s = "duo" THEN 1 ELSE 0]
    /\ cb = <<>>
    /\ downUntil = <<>>
    /\ \E okA \in BOOLEAN : healthy = [a \in {"A"} |-> okA]
    /\ \E okB \in BOOLEAN :
          hl = [NewHl EXCEPT !.pc = "apply", !.addr = "B", !.ok = okB]
    /\ req = [r \in Reqs |->
                 IF r = "r1"
                 THEN [NewReq EXCEPT !.pc = "transport", !.method = "POST",
                                     !.svc = "duo", !.bound = "A", !.target = "A"]
                 ELSE NewReq]
    /\ started = TRUE
    /\ healthLoops = 1
    /\ buckets = <<>>
    /\ reqCount = 1
    /\ streak = [a \in Addrs |-> 0]
    /\ picks = [a \in Addrs |-> 0]
    /\ breakerTransitions = NoTransitions
    /\ calls = [p \in Paths |-> <<>>]
    /\ nextLog = <<>>

NextProbe ==
    \/ Handlers({"r1"}, {"POST"}, {"/"}, {"duo"}, {200, 500}, MaxDispatch)
    \/ Selects({"r1"})
    \/ HealthApply
    \/ Tick(MaxTime)

SpecProbe == InitProbe /\ [][NextProbe]_vars

(***************************************************************************)
(* SpecAllow: two concurrent handlers calling RateLimiter.Allow, its       *)
(* lookup, creation and draw interleaved, for requests that match no       *)
(* route, against a limiter with any configured rate and burst.            *)
(***************************************************************************)
AllowSteps(rs) ==
    \/ \E r \in rs : AllowLookup(r)
    \/ \E r \in rs : AllowCreate(r)
    \/ \E r \in rs : AllowDraw(r)

NextAllow ==
    \/ \E r \in Reqs : StartRequest(r, {"POST"}, Paths, {""}, MaxLimited)
    \/ AllowSteps(Reqs)
    \/ \E r \in Reqs : Resolve(r)
    \/ \E r \in Reqs : Transport(r, {200})
    \/ \E r \in Reqs : ErrorHandler(r)
    \/ \E r \in Reqs : Feedback(r)
    \/ Tick(MaxClock)

SpecAllow == InitLimiter /\ [][NextAllow]_vars

(***************************************************************************)
(* SpecCerts: NewCertManager on a certificate directory that holds any     *)
(* subset of the six files an earlier run wrote.                           *)
(***************************************************************************)
InitCerts ==
    /\ InitProxy(RegistrySolo, NoRateLimiter, TenSeconds)
    /\ \E present \in SUBSET CertFiles :
          certDir = [f \in CertFiles |-> IF f \in present THEN EarlierRun[f] ELSE <<>>]
    /\ cm = [pc |-> "setupCA", caCert |-> <<>>, caKey |-> <<>>,
             serverCert |-> <<>>, clientCert |-> <<>>]

NextCerts ==
    \/ setupCA
    \/ setupServerCert
    \/ setupClientCert

SpecCerts == InitCerts /\ [][NextCerts]_vars

(***************************************************************************)
(* Claims.                                                                 *)
(***************************************************************************)

\* C1: from the moment an endpoint's breaker enters HALF_OPEN until it next
\* leaves HALF_OPEN, next (in any of its passes) returns that endpoint to at
\* most one selection call.
C1_AtMostOneTrial == \A a \in Addrs : picks[a] <= 1

\* ---- helpers of the claims ----

\* The breaker callbacks made so far for request slot r, by kind.
Reports(r, kind) == {i \in DOMAIN req[r].feedback : req[r].feedback[i].kind = kind}

\* This step makes a breaker callback of the given kind for addr.
Reported(kind, addr) ==
    \E r \in Reqs : \E e \in [kind : {kind}, addr : {addr},
                              by : {"ErrorHandler", "status"}] :
        req'[r].feedback = Append(req[r].feedback, e)

\* This step is the locked body of next run for slot r.
SelectStep(r) == req[r].pc \in {"select", "dselect"} /\ req'[r].pc = "transport"

\* The endpoints whose breaker the call of next made in this step for slot r
\* consulted: those it visited in its first pass that were not in cooldown.
ConsultedBy(r) ==
    LET q == req[r]
        n == Len(q.addrs)
        start == rrIdx[q.svc]
        res == NextResult(q.addrs, start, q.nowRead, downUntil, healthy, cb)
        last == IF res.pass = 1 THEN (res.idx - start + n) % n ELSE n - 1
    IN  {a \in {q.addrs[((start + i) % n) + 1] : i \in 0..last} :
            a \in DOMAIN cb /\ ~InCooldown(downUntil, a, q.nowRead)}

\* ---- C2 ----

\* C2: a CLOSED breaker stays CLOSED while fewer than failureThreshold
\* failures were reported since the last reported success (or creation),
\* becomes OPEN exactly at the failureThreshold-th such failure, with
\* openUntil = now + openDuration, and a success reported in CLOSED resets
\* the failure count to 0.
C2_ThresholdOpens ==
    /\ [](\A a \in Addrs : StatusOf(cb, a) = CLOSED =>
            /\ CbOf(cb, a).failures = streak[a]
            /\ streak[a] < failureThreshold)
    /\ [][\A a \in Addrs : StatusOf(cb, a) = CLOSED =>
            /\ Reported("failure", a) =>
                 IF streak[a] + 1 < failureThreshold
                 THEN StatusOf(cb', a) = CLOSED /\ cb'[a].failures = streak[a] + 1
                 ELSE /\ StatusOf(cb', a) = OPEN
                      /\ cb'[a].openUntil = now + openDuration
            /\ Reported("success", a) =>
                 StatusOf(cb', a) = CLOSED /\ cb'[a].failures = 0
            /\ StatusOf(cb', a) # CLOSED => Reported("failure", a)]_vars

\* C2 witness: a breaker just opened by its failureThreshold-th failure in a
\* row, after having stayed closed with one failure fewer.
C2_Witness ==
    \E a \in Addrs :
        /\ StatusOf(cb, a) = OPEN
        /\ streak[a] = failureThreshold
        /\ cb[a].openUntil = now + openDuration

\* ---- C3 ----

\* C3: a request routed to a service whose only endpoint has an OPEN breaker
\* with now < openUntil is not forwarded to that endpoint.
C3_OpenSoloNotForwarded ==
    [][\A r \in Reqs :
        LET q == req[r] IN
        (/\ q.pc \in {"resolve", "director"}
         /\ req'[r].pc # q.pc
         /\ q.svc \in DOMAIN registry
         /\ Len(registry[q.svc]) = 1
         /\ StatusOf(cb, registry[q.svc][1]) = OPEN
         /\ now < cb[registry[q.svc][1]].openUntil)
        => /\ req'[r].target = NoHost
           /\ req'[r].bound = Unknown]_vars

\* ---- C4 ----

\* C4: when an endpoint's breaker is OPEN, its open duration has elapsed and
\* the endpoint is UP and not in cooldown, the next request routed to its
\* service (also one with a single endpoint) moves the breaker to HALF_OPEN
\* and is admitted as the trial; a trial response below 500 closes the
\* breaker with failure count 0.
C4_ElapsedOpenAdmitsTrial ==
    [][\A r \in Reqs :
        LET q == req[r] IN
        /\ \A a \in Addrs :
            (/\ q.pc \in {"resolve", "director", "select", "dselect"}
             /\ req'[r].pc = "transport"
             /\ q.svc \in DOMAIN registry
             /\ \E i \in DOMAIN registry[q.svc] : registry[q.svc][i] = a
             /\ StatusOf(cb, a) = OPEN
             /\ now > cb[a].openUntil
             /\ a \in DOMAIN healthy /\ healthy[a]
             /\ ~InCooldown(downUntil, a, now))
            => /\ StatusOf(cb', a) = HALF_OPEN
               /\ req'[r].bound = a
        /\ (/\ q.pc = "feedback"
            /\ q.bound # Unknown
            /\ StatusOf(cb, q.bound) = HALF_OPEN
            /\ q.status < 500)
           => /\ StatusOf(cb', q.bound) = CLOSED
              /\ cb'[q.bound].failures = 0]_vars

\* ---- C5 ----

\* C5 as stated: a request for which resolution yields no endpoint is
\* answered 503 with no upstream attempt, no retry and no breaker callback.
C5_NoEndpointReplies503 ==
    \A r \in Reqs :
        LET q == req[r] IN
        (q.pc = "done" /\ q.rateLimited = <<>> /\ q.bound = Unknown
                       /\ q.target = NoHost)
        => /\ q.status = 503
           /\ q.attempts = 0
           /\ q.retries = 0
           /\ q.feedback = <<>>

\* C5: a request for which neither the handler's nor the Director's resolve
\* yields an endpoint is still handed to the transport, which fails on every
\* attempt (one attempt, plus maxRetries more for an idempotent method); the
\* error handler answers 502, and no failure and no success is reported to
\* any breaker for a request without a bound endpoint.
C5_NoEndpointReplies502 ==
    \A r \in Reqs :
        LET q == req[r] IN
        /\ q.bound = Unknown => q.feedback = <<>>
        /\ (q.pc = "done" /\ q.rateLimited = <<>> /\ q.target = NoHost)
           => /\ q.bound = Unknown
              /\ q.status = StatusBadGateway
              /\ q.byHandler
              /\ q.attempts = q.retries + 1
              /\ q.retries = IF q.method = "GET" THEN maxRetries ELSE 0

\* C5 witness: a finished GET without an endpoint, answered 502 after three
\* failed attempts and without any breaker callback.
C5_Witness ==
    \E r \in Reqs :
        /\ req[r].pc = "done"
        /\ req[r].bound = Unknown
        /\ req[r].target = NoHost
        /\ req[r].status = StatusBadGateway
        /\ req[r].attempts = maxRetries + 1
        /\ req[r].feedback = <<>>

\* ---- C6 ----

\* C6: a request reports at most one breaker failure; when the error handler
\* answered 502 for a bound endpoint, the request's only callback is the
\* error handler's failure report, however many attempts the transport made.
C6_AtMostOneFailure ==
    \A r \in Reqs :
        LET q == req[r] IN
        /\ Cardinality(Reports(r, "failure")) <= 1
        /\ (q.byHandler /\ q.bound # Unknown)
           => /\ q.status = StatusBadGateway
              /\ q.feedback = <<[kind |-> "failure", addr |-> q.bound,
                                 by |-> "ErrorHandler"]>>

\* C6 witness: a finished request whose transport failed on the first attempt
\* and on both retries, answered 502 by the error handler.
C6_Witness ==
    \E r \in Reqs :
        /\ req[r].pc = "done"
        /\ req[r].byHandler
        /\ req[r].bound # Unknown
        /\ req[r].retries = maxRetries
        /\ Cardinality(Reports(r, "failure")) = 1

\* ---- C7 ----

\* C7: every 5xx response that the upstream itself produced, a passed-through
\* 502 included, is reported as one breaker failure of the bound endpoint.
C7_Upstream5xxIsFailure ==
    \A r \in Reqs :
        LET q == req[r] IN
        (q.pc = "done" /\ q.bound # Unknown /\ ~q.byHandler /\ q.status >= 500)
        => q.feedback = <<[kind |-> "failure", addr |-> q.bound, by |-> "status"]>>

\* ---- C8 ----

\* C8: a request forwarded to a bound endpoint that completes with upstream
\* status s reports exactly one success and no failure when s < 500, exactly
\* one failure and no success when s >= 500 and s # 502, and never both.
C8_FeedbackByStatus ==
    \A r \in Reqs :
        LET q == req[r] IN
        /\ Reports(r, "success") = {} \/ Reports(r, "failure") = {}
        /\ (q.pc = "done" /\ q.bound # Unknown /\ ~q.byHandler)
           => /\ q.status < 500
                 => q.feedback = <<[kind |-> "success", addr |-> q.bound,
                                    by |-> "status"]>>
              /\ (q.status >= 500 /\ q.status # 502)
                 => q.feedback = <<[kind |-> "failure", addr |-> q.bound,
                                    by |-> "status"]>>

\* C8 witness: one finished request with a 404 and its single success report
\* beside one finished with a 503 and its single failure report.
C8_Witness ==
    \E r1, r2 \in Reqs :
        /\ req[r1].pc = "done" /\ req[r1].bound # Unknown /\ req[r1].status = 404
        /\ Cardinality(Reports(r1, "success")) = 1
        /\ req[r2].pc = "done" /\ req[r2].bound # Unknown /\ req[r2].status = 503
        /\ Cardinality(Reports(r2, "failure")) = 1

\* ---- C9 ----

\* C9 as stated: a call of next that consults an OPEN breaker at
\* now = openUntil moves it to HALF_OPEN with the trial permitted (consumed by
\* the same call when it returns that endpoint); for now < openUntil the
\* breaker stays OPEN and the endpoint is skipped.
C9_HalfOpenAtOpenUntil ==
    [][\A r \in Reqs : SelectStep(r) =>
        \A a \in ConsultedBy(r) : StatusOf(cb, a) = OPEN =>
            IF req[r].nowRead >= cb[a].openUntil
            THEN /\ cb'[a].state = HALF_OPEN
                 /\ cb'[a].trialAllowed \/ req'[r].target = a
            ELSE cb'[a] = cb[a]]_vars

\* C9: a call of next that consults an OPEN breaker moves it to HALF_OPEN
\* exactly when now > openUntil; the trial is then permitted, and it is
\* consumed by the same call when the call returns that endpoint.  For
\* now <= openUntil (now = openUntil included) the breaker stays OPEN and
\* neither pass returns the endpoint: the call returns it only by the final
\* unconditional pick.
C9_HalfOpenAfterOpenUntil ==
    [][\A r \in Reqs : SelectStep(r) =>
        \A a \in ConsultedBy(r) : StatusOf(cb, a) = OPEN =>
            IF req[r].nowRead > cb[a].openUntil
            THEN /\ cb'[a].state = HALF_OPEN
                 /\ cb'[a].trialAllowed <=> req'[r].target # a
            ELSE /\ cb'[a] = cb[a]
                 /\ req'[r].target = a =>
                      NextResult(req[r].addrs, rrIdx[req[r].svc], req[r].nowRead,
                                 downUntil, healthy, cb).pass = 3]_vars

\* C9 witness: an endpoint's breaker went HALF_OPEN at the first instant
\* after openUntil, and the request that made the call holds the trial.
C9_Witness ==
    \E a \in Addrs : \E r \in Reqs :
        /\ StatusOf(cb, a) = HALF_OPEN
        /\ ~cb[a].trialAllowed
        /\ now = cb[a].openUntil + 1
        /\ req[r].pc = "transport" /\ req[r].target = a /\ req[r].attempts = 0
        /\ picks[a] = 1

\* ---- C10 ----

\* C10: every finished request, one rejected with 429 and one without a
\* resolved upstream included, made exactly one requests_total increment and
\* one latency observation, with the same method and upstream labels.
C10_OneMetricPerRequest ==
    \A r \in Reqs :
        LET q == req[r] IN
        q.pc = "done"
        => /\ Len(q.requestsTotal) = 1
           /\ Len(q.latency) = 1
           /\ q.requestsTotal[1][1] = q.latency[1][1]
           /\ q.requestsTotal[1][3] = q.latency[1][2]

\* ---- helpers of the rate limiter claims ----

\* The calls of Allow for route p at a time in [t1, t2] that returned true.
AdmittedIn(p, t1, t2) ==
    {k \in DOMAIN calls[p] : calls[p][k].ok /\ t1 <= calls[p][k].at /\ calls[p][k].at <= t2}

\* This step is the rate limit check of slot r, with the limiter configured.
RateLimitStep(r) == limiter.on /\ req[r].pc = "ratelimit" /\ req'[r].pc # "ratelimit"

\* ---- C11 ----

\* C11: for every route and every time window, the number of Allow calls in
\* the window that returned true is at most capacity + refill rate times the
\* length of the window (in seconds).
C11_AdmissionBound ==
    \A p \in Paths : \A t1, t2 \in 0..MaxLimiterTime : t1 <= t2 =>
        Cardinality(AdmittedIn(p, t1, t2)) * 1000
            <= limiter.defaultBurst * 1000 + limiter.defaultRPS * Millis(t2 - t1)

\* C11 witness: a window longer than an instant in which the admitted calls
\* reach the bound, the last of them paid for by a refill.
C11_Witness ==
    \E p \in Paths : \E t1, t2 \in 0..MaxLimiterTime :
        /\ t1 < t2
        /\ Cardinality(AdmittedIn(p, t1, t2)) > limiter.defaultBurst
        /\ Cardinality(AdmittedIn(p, t1, t2)) * 1000
             = limiter.defaultBurst * 1000 + limiter.defaultRPS * Millis(t2 - t1)

\* ---- C12 ----

\* C12: every token bucket (capacity >= 0) has 0 <= tokens <= capacity after
\* any sequence of Allow calls, and an Allow whose refill would raise the
\* tokens above the capacity refills to exactly the capacity (of which the
\* call then takes its one token).
C12_TokensWithinCapacity ==
    /\ [](\A p \in DOMAIN buckets :
            0 <= buckets[p].tokens /\ buckets[p].tokens <= buckets[p].capacity)
    /\ [][\A r \in Reqs :
            LET p == req[r].path IN
            (/\ RateLimitStep(r)
             /\ p \in DOMAIN buckets
             /\ now > buckets[p].lastRefill
             /\ buckets[p].tokens
                  + (Millis(now - buckets[p].lastRefill) * buckets[p].refillRate) \div 1000
                > buckets[p].capacity)
            => buckets'[p].tokens =
                 IF buckets[p].capacity > 0 THEN buckets[p].capacity - 1 ELSE 0]_vars

\* C12 witness: a bucket of capacity 2 and rate 3 was called twice, a second
\* or more apart: the refill of the second call stopped at the capacity.
C12_Witness ==
    \E p \in DOMAIN buckets :
        /\ buckets[p].capacity = 2 /\ buckets[p].refillRate = 3
        /\ Len(calls[p]) = 2
        /\ Millis(calls[p][2].at - calls[p][1].at) >= 1000
        /\ calls[p][2].ok
        /\ buckets[p].tokens = 1

\* ---- C13 ----

\* C13: the bucket of a route is created full by the first request to the
\* route: of the requests to the route that arrive within less than 1/rate
\* seconds of the first, exactly the first capacity ones are admitted; each
\* rejected request is answered 429 and counted once in
\* rate_limited_total{route}, an admitted one is not counted.
C13_BurstThenReject ==
    /\ [](\A p \in Paths : \A k \in DOMAIN calls[p] :
            Millis(calls[p][k].at - calls[p][1].at) * limiter.defaultRPS < 1000
            => (calls[p][k].ok <=> k <= limiter.defaultBurst))
    /\ [][\A r \in Reqs : RateLimitStep(r) =>
            LET p == req[r].path
                last == calls'[p][Len(calls'[p])]
            IN  /\ Len(calls'[p]) = Len(calls[p]) + 1
                /\ IF last.ok
                   THEN req'[r].pc = "resolve" /\ req'[r].rateLimited = <<>>
                   ELSE /\ req'[r].pc = "done"
                        /\ req'[r].status = StatusTooManyRequests
                        /\ req'[r].rateLimited = <<p>>]_vars

\* C13 witness: with a burst of 2, three requests to one route at the same
\* instant: two admitted, the third just rejected with 429 and counted.
C13_Witness ==
    \E p \in Paths : \E r \in Reqs :
        /\ limiter.defaultBurst = 2
        /\ Len(calls[p]) = 3
        /\ calls[p][3].at = calls[p][1].at
        /\ calls[p][1].ok /\ calls[p][2].ok /\ ~calls[p][3].ok
        /\ req[r].pc = "done" /\ req[r].path = p
        /\ req[r].status = StatusTooManyRequests
        /\ req[r].rateLimited = <<p>>

\* ---- C14 ----

\* C14: with a non-empty list of rate limited routes, a request whose path is
\* not in the list is never rejected with 429.
C14_UnlistedRouteNotLimited ==
    \A r \in Reqs :
        (RateLimitRoutes # {} /\ req[r].path \notin RateLimitRoutes)
        => /\ req[r].status # StatusTooManyRequests
           /\ req[r].rateLimited = <<>>

\* ---- helpers of the selection claims ----

\* The endpoint is UP, not in cooldown and its breaker is CLOSED.
Admissible(a) ==
    /\ a \in DOMAIN healthy /\ healthy[a]
    /\ a \notin DOMAIN downUntil \/ now >= downUntil[a]
    /\ StatusOf(cb, a) = CLOSED

\* How many of the direct calls of next returned a.
Chosen(a) == Cardinality({k \in DOMAIN nextLog : nextLog[k].addr = a})

\* ---- C15 ----

\* C15: for a service with n >= 2 endpoints, all UP, not in cooldown and with
\* CLOSED breakers, K successive calls of next return the endpoints in the
\* order of the list, cyclically, starting at the stored index, so that each
\* endpoint is returned floor(K/n) or ceil(K/n) times.
C15_RoundRobinFair ==
    LET addrs == registry["pool"]
        n == Len(addrs)
        K == Len(nextLog)
    IN  (n >= 2 /\ \A i \in 1..n : Admissible(addrs[i]))
        => /\ \A k \in 1..K :
                nextLog[k].addr = addrs[((nextLog[1].start + k - 1) % n) + 1]
           /\ \A i \in 1..n :
                Chosen(addrs[i]) \in {K \div n, (K + n - 1) \div n}

\* C15 witness: six successive calls for [A, B, C], all admissible, starting
\* in the middle of the list: each endpoint was returned twice.
C15_Witness ==
    /\ registry["pool"] = <<"A", "B", "C">>
    /\ \A a \in Addrs : Admissible(a)
    /\ Len(nextLog) = 6
    /\ nextLog[1].start = 1 /\ nextLog[1].addr = "B"
    /\ \A a \in Addrs : Chosen(a) = 2

\* ---- C16 ----

\* C16: for any non-empty endpoint list, any stored index (one beyond the
\* list's length included) and any breaker, health and cooldown state, next
\* returns an element of the list and leaves the stored index in [0, n).
C16_ValidPick ==
    LET addrs == registry["pool"]
        n == Len(addrs)
    IN  nextLog # <<>>
        => /\ rrIdx["pool"] \in 0..(n - 1)
           /\ \A k \in DOMAIN nextLog : \E i \in 1..n : nextLog[k].addr = addrs[i]

\* C16 witness: next was called with a two-element list while the stored
\* index was 3 and the first endpoint's breaker was open.
C16_Witness ==
    /\ registry["pool"] = <<"A", "B">>
    /\ nextLog # <<>>
    /\ nextLog[1].start = 3
    /\ StatusOf(cb, "A") = OPEN
    /\ nextLog[1].addr = "B"

\* ---- C17 ----

\* C17 as stated: with endpoints [a, b] and b admissible, once a failure of a
\* is on record every selection made before a's cooldown can have expired
\* returns b, whatever the health loop did in between.
C17_CooldownSkipsAlways ==
    [][\A r \in Reqs : SelectStep(r) =>
        \A a, b \in Addrs :
            (/\ req[r].addrs \in {<<a, b>>, <<b, a>>}
             /\ a # b
             /\ streak[a] >= 1
             /\ req[r].nowRead < coolDown
             /\ Admissible(b))
            => req'[r].target = b]_vars

\* C17: with endpoints [a, b] and b admissible, once a failure of a is on
\* record every selection made before a's cooldown expires returns b and not
\* a, as long as no health probe has found a healthy since: a successful
\* probe ends the cooldown at once, and a is returned again.
C17_CooldownSkipsUntilProbe ==
    [][\A r \in Reqs : SelectStep(r) =>
        \A a, b \in Addrs :
            (/\ req[r].addrs \in {<<a, b>>, <<b, a>>}
             /\ a # b
             /\ streak[a] >= 1
             /\ req[r].nowRead < coolDown
             /\ ~(a \in DOMAIN healthy /\ healthy[a])
             /\ Admissible(b))
            => req'[r].target = b]_vars

\* C17 witness: the first request failed on A, the second succeeded on B, and
\* the third, with the index back at A and A still in cooldown, got B.
C17_Witness ==
    \E r \in Reqs :
        /\ reqCount = 3
        /\ streak["A"] = 1 /\ ~healthy["A"]
        /\ "A" \in DOMAIN downUntil /\ now < downUntil["A"]
        /\ "B" \in DOMAIN cb /\ Admissible("B")
        /\ req[r].pc = "transport" /\ req[r].attempts = 0
        /\ req[r].bound = "B"
        /\ rrIdx["duo"] = 0

\* ---- C18 ----

\* This step stores the result of a health probe.
ProbeStep == hl.pc = "apply" /\ hl'.pc # "apply"

\* C18 as stated: the health table changes only in a probe step of the
\* health loop.
C18_HealthOnlyByProbe ==
    [][healthy' # healthy => ProbeStep]_vars

\* C18: the health table changes only in a probe step of the health loop or
\* when a failure is reported to the breaker, which marks that endpoint (and
\* no other) down; a selection, a success report and the registration of a
\* service's endpoints never change it.
C18_HealthByProbeOrFailure ==
    [][healthy' # healthy =>
        \/ ProbeStep
        \/ \E a \in Addrs : /\ Reported("failure", a)
                            /\ healthy' = MapSet(healthy, a, FALSE)]_vars

\* C18 witness: A is marked down by a reported failure while the health loop
\* has not probed any endpoint yet.
C18_Witness ==
    /\ healthy = [a \in {"A"} |-> FALSE]
    /\ streak["A"] = 1
    /\ hl.pc = "wait"
    /\ services = [s \in {"duo"} |-> <<"A", "B">>]

\* ---- C19 ----

\* This step is one attempt of the retrying transport for request r.
AttemptStep(r) ==
    req[r].pc = "transport" /\ req'[r].attempts = req[r].attempts + 1

\* C19: an attempt made after the first one follows only attempts that ended
\* in a transport error (each counted as a retry), within the budget of
\* maxRetries retries, and only for GET, HEAD, PUT or DELETE; a request gets
\* at most maxRetries + 1 attempts, a request with any other method exactly
\* one, and an attempt that yields a response of any status leaves the loop
\* with that status, no attempt following it.
C19_RetryPolicy ==
    [][\A r \in Reqs :
        /\ (AttemptStep(r) /\ req[r].attempts >= 1) =>
               /\ req[r].retries = req[r].attempts
               /\ req[r].retries - 1 < maxRetries
               /\ req[r].method \in {"GET", "HEAD", "PUT", "DELETE"}
        /\ AttemptStep(r) =>
               /\ req'[r].attempts <= maxRetries + 1
               /\ req[r].method \notin {"GET", "HEAD", "PUT", "DELETE"} =>
                      /\ req'[r].attempts = 1
                      /\ req'[r].pc \in {"errorhandler", "feedback"}
               /\ req'[r].pc = "transport" =>
                      req'[r].retries = req[r].retries + 1
        /\ req[r].pc \notin {"transport"} =>
               req'[r].attempts \in {req[r].attempts, 0}
        /\ (req[r].pc = "feedback" /\ ~req[r].byHandler) =>
               req'[r].attempts \in {req[r].attempts, 0}]_vars

\* C19 witness: a PUT whose three attempts all ended in a transport error
\* has used both retries and is handed to the error handler.
C19_Witness ==
    /\ req["r1"].method = "PUT"
    /\ req["r1"].pc = "errorhandler"
    /\ req["r1"].attempts = maxRetries + 1
    /\ req["r1"].retries = maxRetries
    /\ ~req["r1"].cancelled

\* ---- C20 ----

\* C20: once a request's context is cancelled, the attempt that fails is the
\* last one: the transport schedules no retry and returns the error.
C20_NoRetryAfterCancel ==
    [][\A r \in Reqs :
        (req[r].cancelled /\ AttemptStep(r)) =>
            /\ req'[r].retries = req[r].retries
            /\ req'[r].pc = "errorhandler"]_vars

\* ---- C21 ----

\* The rules of the configuration that match the latest routed request, as
\* C21 words it: host empty or equal to the port-stripped request host
\* without regard to case, path prefix empty or a prefix of the path.
MatchingRules ==
    LET d == routed[1]
    IN  {i \in 1..Len(cfg.Routes) :
            /\ \/ cfg.Routes[i].Host = <<>>
               \/ EqualFold(cfg.Routes[i].Host, StripPort(d.host))
            /\ \/ cfg.Routes[i].PathPrefix = <<>>
               \/ HasPrefix(d.path, cfg.Routes[i].PathPrefix)}

FirstMatching == CHOOSE i \in MatchingRules : \A j \in MatchingRules : i <= j

C22_NeverStale ==
    \A l \in Loaders :
        (loads[l].pc = "done" /\ ~loads[l].err) =>
            \E v \in loads[l].began..modTime :
                loads[l].addrs = FileContent(v)[loads[l].serviceName]

\* C22 witness: a call that began after the file was rewritten a second time
\* returned the endpoints of that version from the cache, while a call that
\* began at the first version is about to store what it read.
C22_Witness ==
    /\ modTime = 2
    /\ loads["l2"].pc = "done" /\ loads["l2"].began = 2 /\ ~loads["l2"].err
    /\ loads["l2"].out = <<>>
    /\ loads["l2"].addrs = <<"A", "B", "C">>
    /\ loads["l1"].pc = "store" /\ loads["l1"].fi = 1

\* ---- C23 ----

\* C23: a breaker allows a trial only while it is HALF_OPEN: a CLOSED and an
\* OPEN breaker have trialAllowed = FALSE.
C23_TrialOnlyHalfOpen ==
    \A a \in DOMAIN cb :
        /\ cb[a].state = CLOSED => ~cb[a].trialAllowed
        /\ cb[a].state = OPEN => ~cb[a].trialAllowed
        /\ cb[a].trialAllowed => cb[a].state = HALF_OPEN

\* C23 witness: a selection found A's breaker OPEN with its window elapsed,
\* made it HALF_OPEN with the trial allowed, passed A over as DOWN and
\* returned B, whose breaker is CLOSED: the trial stays allowed.
C23_Witness ==
    /\ DOMAIN cb = {"A", "B"}
    /\ cb["A"].state = HALF_OPEN /\ cb["A"].trialAllowed
    /\ cb["B"].state = CLOSED /\ ~cb["B"].trialAllowed
    /\ req["r1"].pc = "transport" /\ req["r1"].target = "B"

\* ---- C24 ----

\* Endpoint a passes the preferred filter of a selection that read time t:
\* not in cooldown, not skipped by its breaker after the consultation, not
\* DOWN.
Preferred(a, t) ==
    /\ ~(a \in DOMAIN downUntil /\ t < downUntil[a])
    /\ ~BreakerSkips(Consult(CbOf(cb, a), t))
    /\ ~(a \in DOMAIN healthy /\ ~healthy[a])

\* The endpoints of r's list that pass r's preferred filter.
PreferredOf(r) ==
    {a \in Addrs : /\ \E i \in DOMAIN req[r].addrs : req[r].addrs[i] = a
                   /\ Preferred(a, req[r].nowRead)}

\* C24: when two selections for the same service are pending and at least
\* two endpoints pass the preferred filter of each, the one that takes the
\* lock first and the one that takes it next return different endpoints.
C24_ConcurrentPicksDiffer ==
    [][\A r, q \in Reqs :
        (/\ r # q /\ SelectStep(r)
         /\ req[q].pc = "select" /\ req[q].svc = req[r].svc
         /\ req[q].addrs = req[r].addrs
         /\ Cardinality(PreferredOf(r)) >= 2
         /\ Cardinality(PreferredOf(q)) >= 2)
        => NextResult(req[q].addrs, rrIdx'[req[q].svc], req[q].nowRead,
                      downUntil', healthy', cb').addr # req'[r].target]_vars

\* C24 witness: on the list [A, B, C] with B in cooldown both selections
\* have returned, one A and the other C.
C24_Witness ==
    /\ registry = [pool |-> <<"A", "B", "C">>]
    /\ InCooldown(downUntil, "B", MaxTime - 1)
    /\ req["r1"].pc = "transport" /\ req["r1"].target = "A"
    /\ req["r2"].pc = "transport" /\ req["r2"].target = "C"

\* ---- C25 ----

\* The breaker state that a label of the transitions counter stands for.
StateOfLabel(toState) ==
    CASE toState = "open" -> OPEN
      [] toState = "half_open" -> HALF_OPEN
      [] toState = "closed" -> CLOSED

\* C25: in every step the transitions counter of (upstream, to_state) grows
\* by one if the upstream's breaker changes its state into to_state in that
\* step, and stays as it is otherwise; a failure reported while the breaker
\* is already OPEN leaves the "open" count alone.
C25_CountsEachTransition ==
    [][\A a \in Addrs : \A l \in {"open", "half_open", "closed"} :
        breakerTransitions'[a][l] =
            breakerTransitions[a][l]
            + (IF StatusOf(cb', a) = StateOfLabel(l) /\ StatusOf(cb, a) # StateOfLabel(l)
               THEN 1 ELSE 0)]_vars

\* C25 witness: failureThreshold failures opened A's breaker, one more was
\* reported while it was OPEN, and no selection has made it HALF_OPEN: the
\* "open" count of A is 1.
C25_Witness ==
    /\ StatusOf(cb, "A") = OPEN
    /\ cb["A"].failures = failureThreshold + 1
    /\ streak["A"] = failureThreshold + 1
    /\ breakerTransitions["A"] = [open |-> 1, half_open |-> 0, closed |-> 0]

\* ---- C26 ----

\* C26: at most one health loop is ever started, however many handler
\* goroutines register endpoints and in whatever order; it is started by
\* the first registration.
C26_OneHealthLoop ==
    /\ healthLoops <= 1
    /\ healthLoops = 1 <=> started
    /\ services # <<>> => healthLoops = 1

\* C26 witness: both handler goroutines have registered the endpoints of
\* their services, solo and duo, and one health loop runs.
C26_Witness ==
    /\ DOMAIN services = {"solo", "duo"}
    /\ req["r1"].pc = "transport" /\ req["r1"].svc = "solo"
    /\ req["r2"].pc = "select" /\ req["r2"].svc = "duo"
    /\ healthLoops = 1

\* ---- C27 ----

\* This step makes a breaker callback for request slot r about addr.
ReportedBy(r, addr) ==
    /\ Len(req'[r].feedback) = Len(req[r].feedback) + 1
    /\ req'[r].feedback[Len(req'[r].feedback)].addr = addr

\* C27: the completion of a request that was selected for an endpoint before
\* its breaker entered HALF_OPEN (the PATCH that has been in flight since
\* before) leaves a HALF_OPEN breaker HALF_OPEN.
C27_StaleCompletionIgnored ==
    [][\A r \in Reqs : \A a \in Addrs :
        (/\ req[r].method = "PATCH"
         /\ ReportedBy(r, a)
         /\ StatusOf(cb, a) = HALF_OPEN)
        => StatusOf(cb', a) = HALF_OPEN]_vars

\* ---- C28 ----

\* The offsets i from the stored index at which the list of the selection
\* specification holds an endpoint that passes the preferred filter now.
PreferredOffsets ==
    LET addrs == registry["pool"]
        n == Len(addrs)
    IN  {i \in 0..(n - 1) : Preferred(addrs[((rrIdx["pool"] + i) % n) + 1], now)}

\* C28: when some endpoint of the list is not in cooldown, not skipped by
\* its breaker and not DOWN, next returns the first such endpoint in the
\* order cursor, cursor + 1, ... (mod n) and stores the index just past it.
C28_FirstPreferred ==
    [][(nextLog' # nextLog /\ PreferredOffsets # {}) =>
        LET addrs == registry["pool"]
            n == Len(addrs)
            i == CHOOSE x \in PreferredOffsets : \A y \in PreferredOffsets : x <= y
            idx == (rrIdx["pool"] + i) % n
        IN  /\ nextLog'[Len(nextLog')].addr = addrs[idx + 1]
            /\ rrIdx'["pool"] = (idx + 1) % n]_vars

\* C28 witness: called with the cursor at A, in cooldown, and B next, DOWN
\* by a failed probe, next returned C and stored the index 0.
C28_Witness ==
    /\ registry["pool"] = <<"A", "B", "C">>
    /\ InCooldown(downUntil, "A", now)
    /\ IsDown(healthy, "B") /\ "B" \notin DOMAIN downUntil
    /\ nextLog = <<[start |-> 0, addr |-> "C"]>>
    /\ rrIdx["pool"] = 0

\* ---- C29 ----

\* The call of next made in this step of the selection specification: the
\* endpoint it returns and the pass that returns it.
ThisCall ==
    NextResult(registry["pool"], rrIdx["pool"], now, downUntil, healthy, cb)

\* Endpoint a is DOWN: the health table holds FALSE for it.
Down(a) == a \in DOMAIN healthy /\ ~healthy[a]

Excluded(a) ==
    \/ a \in DOMAIN downUntil /\ now < downUntil[a]
    \/ CbOf(cb, a).state = OPEN /\ ~(now > CbOf(cb, a).openUntil)
    \/ CbOf(cb, a).state = HALF_OPEN /\ ~CbOf(cb, a).trialAllowed

\* C30: when every endpoint of the list is excluded by cooldown or by its
\* breaker, next returns addrs[start mod n], stores (start + 1) mod n, and
\* leaves the breaker map as it was: no transition, no trial consumed, no
\* failure count changed.
C30_LastResortFrame ==
    [][LET addrs == registry["pool"]
           n == Len(addrs)
           start == rrIdx["pool"]
       IN  (nextLog' # nextLog /\ \A i \in 1..n : Excluded(addrs[i])) =>
               /\ nextLog'[Len(nextLog')].addr = addrs[(start % n) + 1]
               /\ rrIdx'["pool"] = (start + 1) % n
               /\ cb' = cb
               /\ breakerTransitions' = breakerTransitions]_vars

\* C30 witness: A in cooldown, B's breaker OPEN with its window not elapsed;
\* called with the stored index 1, next returned B, stored 0 and left B's
\* breaker OPEN.
C30_Witness ==
    /\ registry["pool"] = <<"A", "B">>
    /\ Excluded("A") /\ "A" \in DOMAIN downUntil
    /\ "B" \notin DOMAIN downUntil
    /\ StatusOf(cb, "B") = OPEN /\ cb["B"].openUntil = now
    /\ nextLog = <<[start |-> 1, addr |-> "B"]>>
    /\ rrIdx["pool"] = 0

\* ---- C31 ----

\* C31: refill credits by elapsed time alone.  A bucket of capacity >= 1 and
\* rate r > 0 was left with 0 tokens by call k; call j comes 1/r seconds or
\* more after call k and every call between them was rejected: call j
\* returns true.
C31_RefillByElapsedTime ==
    \A p \in Paths : \A k, j \in DOMAIN calls[p] :
        (/\ limiter.defaultBurst >= 1 /\ limiter.defaultRPS > 0
         /\ k < j
         /\ calls[p][k].left = 0
         /\ Millis(calls[p][j].at - calls[p][k].at) * limiter.defaultRPS >= 1000
         /\ \A i \in (k + 1)..(j - 1) : ~calls[p][i].ok)
        => calls[p][j].ok

\* ---- C32 ----

\* This step is a call of the resolver made for slot r: by the handler (pc
\* "resolve") or by the Director (pc "director").
ResolverCall(r) ==
    req[r].pc \in {"resolve", "director"} /\ req'[r].pc # req[r].pc

\* C32: the resolver is called at most once for a request, so the Director,
\* which runs after the handler's call, never calls it; and the endpoint a
\* request is forwarded to is the endpoint bound to it, the one that labels
\* its metrics and receives its breaker feedback.
C32_ResolvedOnceForwardedToBound ==
    /\ [][\A r \in Reqs : ResolverCall(r) => req[r].pc = "resolve"]_vars
    /\ [](\A r \in Reqs :
            (req[r].attempts > 0 /\ req[r].target # NoHost)
            => req[r].target = req[r].bound)

\* ---- C33 ----

\* C33 as stated: the backoff slept before the first retry is 150 ms, before
\* the second 300 ms, each delay twice the one before.
C33_BackoffFromBase ==
    \A r \in Reqs :
        /\ Len(req[r].slept) = req[r].retries
        /\ \A k \in DOMAIN req[r].slept :
              req[r].slept[k] = IF k = 1 THEN 150 ELSE 2 * req[r].slept[k - 1]

\* C33: the transport sleeps once per retry, after counting it: 300 ms
\* before the first retry and 600 ms before the second, each delay twice the
\* one before.
C33_BackoffFromTwiceBase ==
    \A r \in Reqs :
        /\ Len(req[r].slept) = req[r].retries
        /\ \A k \in DOMAIN req[r].slept :
              req[r].slept[k] = IF k = 1 THEN 300 ELSE 2 * req[r].slept[k - 1]

\* C33 witness: a GET that failed three times slept 300 ms and then 600 ms.
C33_Witness ==
    /\ req["r1"].method = "GET"
    /\ req["r1"].pc = "errorhandler"
    /\ req["r1"].slept = <<300, 600>>

\* ---- C34 ----

\* The verifier accepts the certificate of the pair against a pool that
\* holds only the manager's CA certificate.
SignedByManagerCA(pair) == pair[1].cert.issuer = cm.caCert[1].key

\* C34: after NewCertManager returned, all six files exist and the server
\* and client certificates of the manager are signed by the manager's CA.
C34_CertsSignedByManagerCA ==
    cm.pc = "done" =>
        /\ \A f \in CertFiles : Exists(f)
        /\ SignedByManagerCA(cm.serverCert)
        /\ SignedByManagerCA(cm.clientCert)

\* ---- C35 ----

\* A request that next sent to addr has not completed yet.
InFlightTo(addr) ==
    \E r \in Reqs : /\ req[r].pc \in {"transport", "errorhandler", "feedback"}
                    /\ req[r].target = addr

\* C35: a breaker is HALF_OPEN with its trial consumed only while the trial
\* request is in flight: the completion of the trial, whatever its outcome,
\* moves the breaker to CLOSED or OPEN.
C35_TrialOutcomeLeavesHalfOpen ==
    \A a \in DOMAIN cb :
        (cb[a].state = HALF_OPEN /\ ~cb[a].trialAllowed) => InFlightTo(a)

\* ---- C36 ----

\* The edges of the breaker's state machine.
BreakerEdges ==
    {<<CLOSED, OPEN>>, <<OPEN, HALF_OPEN>>, <<HALF_OPEN, CLOSED>>, <<HALF_OPEN, OPEN>>}

\* C36: a breaker's state changes only along the four edges; a success
\* reported while OPEN leaves it OPEN, a failure reported while OPEN leaves
\* it OPEN with openUntil unchanged, and OPEN -> HALF_OPEN is made only by a
\* call of next.
C36_BreakerEdges ==
    [][\A a \in Addrs :
        LET old == CbOf(cb, a)
            new == CbOf(cb', a)
        IN  /\ old.state # new.state => <<old.state, new.state>> \in BreakerEdges
            /\ (old.state = OPEN /\ Reported("success", a)) => new.state = OPEN
            /\ (old.state = OPEN /\ Reported("failure", a)) =>
                   new.state = OPEN /\ new.openUntil = old.openUntil
            /\ (old.state = OPEN /\ new.state = HALF_OPEN) =>
                   \E r \in Reqs : SelectStep(r)]_vars

\* C36 witness: with both endpoints excluded, next fell back on A whose
\* breaker was OPEN; the request succeeded and its success was reported: the
\* failure count is 0 and the breaker is still OPEN.
C36_Witness ==
    /\ StatusOf(cb, "A") = OPEN
    /\ cb["A"].failures = 0
    /\ req["r1"].pc = "done"
    /\ req["r1"].feedback = <<[kind |-> "success", addr |-> "A", by |-> "status"]>>

\* ---- C37 ----

\* C37: while no probe begins, a passive cooldown is never removed nor
\* shortened; the result of a probe that dialled before the failure was
\* recorded, stored after it, leaves the cooldown in place and does not mark
\* the endpoint up.
C37_StaleProbeKeepsCooldown ==
    [][/\ \A a \in DOMAIN downUntil :
             a \in DOMAIN downUntil' /\ downUntil'[a] >= downUntil[a]
       /\ (ProbeStep /\ hl.addr \in DOMAIN downUntil) =>
             ~(hl.addr \in DOMAIN healthy' /\ healthy'[hl.addr])]_vars

\* ---- C38 ----

\* C38: the step that rejects a request changes nothing of the balancer
\* (cursor, cooldowns, health, registered services, breakers) and makes no
\* breaker callback; a rejected request is finished: it was never bound or
\* forwarded to an endpoint and has reported nothing.
C38_RejectedLeavesBalancer ==
    /\ [][\A r \in Reqs :
            (RateLimitStep(r) /\ req'[r].rateLimited # <<>>) =>
                /\ rrIdx' = rrIdx /\ cb' = cb /\ downUntil' = downUntil
                /\ healthy' = healthy /\ services' = services
                /\ started' = started
                /\ breakerTransitions' = breakerTransitions
                /\ nextLog' = nextLog]_vars
    /\ [](\A r \in Reqs : req[r].rateLimited # <<>> =>
            /\ req[r].pc = "done"
            /\ req[r].bound = Unknown /\ req[r].target = NoHost
            /\ req[r].attempts = 0
            /\ req[r].feedback = <<>>)

\* C38 witness: r2 was rejected with 429 while r1, admitted, is on its way
\* to the endpoint next chose for it.
C38_Witness ==
    /\ req["r1"].pc = "transport" /\ req["r1"].bound = "A"
    /\ req["r1"].svc = "duo"
    /\ req["r2"].pc = "done" /\ req["r2"].rateLimited = <<"/">>
    /\ req["r2"].status = StatusTooManyRequests
    /\ req["r2"].svc = "duo"
    /\ rrIdx["duo"] = 1

\* ---- C39 ----

\* C39: a route's bucket, once in the map, is never replaced: it changes
\* only by a draw of a caller for that route, and a step of a caller for one
\* route leaves the bucket of every other route as it was; so of the calls
\* for a route made at one instant, interleaved in any way, at most capacity
\* are admitted.
C39_OneBucketPerKey ==
    /\ [][\A p \in DOMAIN buckets :
            /\ p \in DOMAIN buckets'
            /\ buckets'[p] # buckets[p] =>
                  \E r \in Reqs :
                      /\ req[r].path = p /\ req[r].pc = "draw"
                      /\ req'[r].pc # "draw"
                      /\ calls'[p] # calls[p]]_vars
    /\ [][\A r \in Reqs : req'[r] # req[r] =>
            \A p \in Paths \ {req'[r].path} :
                /\ (p \in DOMAIN buckets') = (p \in DOMAIN buckets)
                /\ p \in DOMAIN buckets => buckets'[p] = buckets[p]]_vars
    /\ [](\A p \in Paths : \A t \in 0..MaxClock :
            Cardinality(AdmittedIn(p, t, t)) <= limiter.defaultBurst)

\* C39 witness: r1 and r2 both looked up "/" before its bucket existed; r2
\* created the bucket and took its only token; r1, which took the write lock
\* second and found the bucket, drew from it and was rejected.
C39_Witness ==
    /\ limiter.defaultBurst = 1
    /\ req["r1"].path = "/" /\ req["r2"].path = "/"
    /\ req["r2"].pc = "resolve"
    /\ req["r1"].pc = "done" /\ req["r1"].rateLimited = <<"/">>
    /\ calls["/"] = <<[at |-> 0, ok |-> TRUE, left |-> 0],
                      [at |-> 0, ok |-> FALSE, left |-> 0]>>
    /\ reqCount = 2

\* ---- C40 ----

\* C40: a CLOSED breaker holds fewer than failureThreshold failures, and not
\* fewer than 0.
C40_ClosedBelowThreshold ==
    \A a \in DOMAIN cb :
        cb[a].state = CLOSED =>
            0 <= cb[a].failures /\ cb[a].failures < failureThreshold

\* C40 witness: A's breaker went through OPEN and HALF_OPEN and was closed by
\* the trial's success: CLOSED with no failure counted.
C40_Witness ==
    /\ "A" \in DOMAIN cb
    /\ cb["A"].state = CLOSED
    /\ cb["A"].failures = 0
    /\ breakerTransitions["A"] = [open |-> 1, half_open |-> 1, closed |-> 1]

=============================================================================
